---- MODULE Spec2Model ----
(***************************************************************************)
(* Incremental indexing engine of rag-init: the indexing ledger            *)
(* (IndexingHistoryService), the reconciliation run                        *)
(* (RagService.incrementalIndexDirectory), the file fingerprint            *)
(* (FileHashUtil), the document loader, the Qdrant vector-store adapter    *)
(* (QdrantVectorStore.addDocuments / addVectors / ensureCollection) and    *)
(* the query pipeline (RagService.query).                                  *)
(*                                                                         *)
(* Spec      the run and the ledger, the directory edited between runs     *)
(* SpecRace  Spec plus files rewritten while a run is in progress          *)
(* SpecW     Spec plus a ledger file that can become unwritable            *)
(* SpecCrash Spec plus a process that dies inside a ledger write           *)
(* SpecFull  Spec plus full indexing, single-file indexing and queries     *)
(* SpecWriters two processes, each with its own ledger map, over one file  *)
(* SpecCorun two reconciliation runs in one process, interleaved at awaits *)
(* SpecAgain reconciliation repeated for ever, with fairness               *)
(* SpecQ     concurrent ensureCollection calls                             *)
(* SpecP     concurrent addDocuments / addVectors calls and their ids      *)
(* SpecR     POST /rag/query                                               *)
(* SpecDir   the directory scan and runs over differently named directories*)
(***************************************************************************)
EXTENDS Integers, Sequences, FiniteSets, TLC

(***************************************************************************)
(* Bounds of the model.                                                    *)
(***************************************************************************)
\* number of file paths under the scanned directory
MaxFiles == 2
\* number of distinct parsable file contents (content 0 is unparsable)
MaxContent == 2
\* largest modification time a file can carry
MaxMtime == 1
\* largest value of the wall clock; the clock advances when a run starts
MaxTime == 3
\* number of edits the environment makes to the directory
MaxEdits == 2
\* number of edits the environment makes to the tree under /app/docs
MaxDirEdits == 3
\* number of concurrent callers of QdrantVectorStore.addDocuments
MaxCallers == 3
\* largest value of the millisecond clock read by Date.now()
MaxClock == 2
\* largest number of chunks one addDocuments / addVectors call carries
MaxChunks == 2
\* largest number of words of a question
MaxQuestion == 2
\* largest number of points the collection returns for a search
MaxHits == 5

\* chunking.service.ts: RecursiveCharacterTextSplitter({chunkSize, chunkOverlap})
ChunkSize == 1000
ChunkOverlap == 200

\* rag.service.ts, query: similaritySearch(question, 10) and slice(0, 4)
CandidateK == 10
FinalK == 4

Paths == 1..MaxFiles
Contents == 0..MaxContent
Unparsable == 0
Callers == 1..MaxCallers

VARIABLES
  disk,            \* file system: path -> [exists, content, mtime]
  history,         \* IndexingHistoryService.history (in-memory Map)
  historyFile,     \* content of .indexing-history.json
  now,             \* wall clock (new Date())
  edits,           \* number of edits made to the directory so far
  collectionExists,\* the Qdrant collection exists
  pc,              \* position of the reconciliation run
  documents,       \* result of loadFromDirectory for the current run
  idx,             \* index of the next document of the for loop (1-based)
  added, updated, skipped,  \* the run's counters
  result,          \* value returned by the last completed run
  warned,          \* the run logged the manual-cleanup warning
  startHistory,    \* ledger when the current run started
  outcome,         \* per path: what the current run did with the file
  chunked, embedded, upserted, \* paths for which the run called splitTexts / embedDocuments / client.upsert
  prevTotal,       \* total of the directly preceding run if nothing happened since, else -1
  delCount,        \* per path: times counted as deleted since its last recordIndexing
  createFailedAt,  \* index of the first document whose createCollection failed in this run, 0 if none
  qpc,             \* per caller: position inside QdrantVectorStore.ensureCollection
  createCalls,     \* number of createCollection requests sent
  createErrors,    \* number of createCollection requests rejected with "already exists"
  indexedContent,  \* per path: the content that was chunked and upserted when its record was written
  writable,        \* the ledger file accepts writes
  stored,          \* <<path, content>> of the chunks a successful upsert put in the collection
  pointCount,      \* per path: points upserted by the indexing call before its record, 0 without a record
  clock,           \* Date.now(), in milliseconds
  adds,            \* per caller: its addDocuments / addVectors call [pc, n, ids]
  points,          \* points held by the Qdrant collection: [id, owner]
  sent,            \* number of points handed to client.upsert by completed calls
  vectorStore,     \* VectorStoreService.vectorStore is not null
  ensured,         \* an addDocuments call of this process got through ensureCollection
  rpc,             \* position of the current POST /rag/query request
  question,        \* its question
  search,          \* what its similaritySearch call met: no store, a pending, answered or failed search
  candidateDocs,   \* RagService.query: candidateDocs
  relevantDocs,    \* RagService.query: relevantDocs
  response,        \* what the controller returned to the caller
  searchCalls,     \* searches sent to the vector database for this request
  generateCalls,   \* LLMService.generateAnswer calls made for this request
  detectedCompany, \* RagService.query: companyName, what extractCompanyName returned
  context,         \* RagService.query: context, the text handed to generateAnswer
  dirDisk,         \* the directory tree: content of each file under /app/docs
  dirHistory,      \* the ledger, keyed by the file paths as the loader built them
  dirRun,          \* the last reconciliation request over the tree and what it did
  fullIndexed,     \* <<path, content>> upserted by loadDocumentsFromDirectory / loadDocumentFromFile
  procs,           \* per process: whether it is up, and its IndexingHistoryService.history
  lastWriter,      \* the process that made the last recordIndexing / clearHistory call
  corun,           \* the locals of each of two incrementalIndexDirectory calls in one process
  upsertCount      \* per <<path, hash>>: the client.upsert calls that succeeded for it

vars == <<disk, history, historyFile, now, edits, collectionExists, pc, documents, idx,
          added, updated, skipped, result, warned, startHistory, outcome,
          chunked, embedded, upserted, prevTotal, delCount,
          createFailedAt, qpc, createCalls, createErrors,
          indexedContent, writable, stored, pointCount, clock, adds, points, sent,
          vectorStore, ensured, rpc, question, search, candidateDocs, relevantDocs, response,
          searchCalls, generateCalls, detectedCompany, context,
          dirDisk, dirHistory, dirRun, fullIndexed, procs, lastWriter, corun, upsertCount>>

qVars == <<qpc, createCalls, createErrors>>

pointVars == <<clock, adds, points, sent>>

queryVars == <<vectorStore, ensured, rpc, question, search, candidateDocs, relevantDocs,
               response, searchCalls, generateCalls,
                 detectedCompany, context>>

\* what the reconciliation run and the ledger operations never write
dirVars == <<dirDisk, dirHistory, dirRun>>

fullVars == <<fullIndexed>>

writerVars == <<procs, lastWriter>>

corunVars == <<corun, upsertCount>>

otherVars == <<fullVars, writerVars, corunVars>>

besideVars == <<qVars, pointVars, queryVars, dirVars, otherVars>>

(***************************************************************************)
(* File system and fingerprint                                             *)
(***************************************************************************)
Absent == [exists |-> FALSE, content |-> 0, mtime |-> 0]

FileStates ==
  {Absent} \cup [exists : {TRUE}, content : Contents, mtime : 0..MaxMtime]

\* fs.existsSync
ExistsSync(p) == disk[p].exists

\* crypto md5 over the file bytes: a function of the content alone,
\* injective on the contents of the model
Md5(c) == (7 * c + 3) % 16

\* a mutant of CalculateFileHash: the modification time enters the hash
CalculateFileHashWithMtime(p) == (Md5(disk[p].content) + disk[p].mtime) % 16

\* FileHashUtil.calculateFileHash
CalculateFileHash(p) == Md5(disk[p].content)

\* FileHashUtil.getFileModifiedTime
GetFileModifiedTime(p) == disk[p].mtime

\* FileHashUtil.getFileInfo; throws when the file cannot be read
GetFileInfoThrows(p) == ~ExistsSync(p)
GetFileInfo(p) == [hash |-> CalculateFileHash(p), modifiedTime |-> GetFileModifiedTime(p)]

(***************************************************************************)
(* Chunking                                                                *)
(***************************************************************************)
\* length of the text the loader extracts from a content
TextLen(c) == 700 * c

\* number of chunks RecursiveCharacterTextSplitter produces for a text
SplitCount(len) ==
  IF len = 0 THEN 0
  ELSE IF len <= ChunkSize THEN 1
  ELSE 1 + ((len - ChunkSize) + (ChunkSize - ChunkOverlap) - 1) \div (ChunkSize - ChunkOverlap)

\* a mutant of GetChunkCount: the text length divided by the chunk size
GetChunkCountByLength(c) == TextLen(c) \div ChunkSize

\* RagService.getChunkCount
GetChunkCount(c) == SplitCount(TextLen(c))

\* RagService.addDocuments([text]): the number of documents splitTexts hands
\* to VectorStoreService.addDocuments, one point each
AddDocumentsPoints(c) == SplitCount(TextLen(c))

(***************************************************************************)
(* Document loader                                                         *)
(***************************************************************************)
RECURSIVE SortedSeq(_)
SortedSeq(S) ==
  IF S = {} THEN <<>>
  ELSE LET m == CHOOSE x \in S : \A y \in S : x <= y
       IN <<m>> \o SortedSeq(S \ {m})

\* DocumentLoaderService.getAllFiles: the files of the directory in readdir order
GetAllFiles == SortedSeq({p \in Paths : ExistsSync(p)})

\* DocumentLoaderService.loadFromFile throws (unreadable or unparsable file)
LoadFromFileThrows(p) == ~ExistsSync(p) \/ disk[p].content = Unparsable

\* DocumentLoaderService.loadFromFile.  The documents under Paths have no
\* metadata.filePath of their own; LoadFromFileAt models those that have.
LoadFromFile(p) == [filePath |-> p, content |-> disk[p].content]

\* DocumentLoaderService.loadFromFiles: Promise.all rejects when one load rejects
LoadFromFilesThrows(files) == \E i \in 1..Len(files) : LoadFromFileThrows(files[i])
LoadFromFiles(files) == [i \in 1..Len(files) |-> LoadFromFile(files[i])]

(***************************************************************************)
(* Indexing ledger (IndexingHistoryService)                                *)
(***************************************************************************)
EmptyHistory == [p \in {} |-> 0]

\* IndexingHistoryService.isIndexed
IsIndexed(h, p) == p \in DOMAIN h

\* a mutant of HasChanged: the change test compares modification times
HasChangedByMtime(h, p, currentHash) ==
  IF p \notin DOMAIN h THEN TRUE ELSE h[p].modifiedTime # GetFileModifiedTime(p)

\* IndexingHistoryService.hasChanged
HasChanged(h, p, currentHash) ==
  IF p \notin DOMAIN h THEN TRUE ELSE h[p].hash # currentHash

\* Map.set in recordIndexing
RecordIndexing(h, p, hash, modifiedTime, chunkCount, t) ==
  [q \in DOMAIN h \cup {p} |->
     IF q = p
     THEN [hash |-> hash, modifiedTime |-> modifiedTime,
           chunkCount |-> chunkCount, indexedAt |-> t]
     ELSE h[q]]

\* Map.delete in removeRecord
RemoveRecord(h, p) == [q \in DOMAIN h \ {p} |-> h[q]]

\* a mutant of FindDeletedFiles: the existence test is inverted
FindDeletedFilesInverted(h) == {p \in DOMAIN h : ExistsSync(p)}

\* IndexingHistoryService.findDeletedFiles
FindDeletedFiles(h) == {p \in DOMAIN h : ~ExistsSync(p)}

\* a mutant of RemoveAll: the records of the deleted files stay in the map
RemoveAllKeeps(h, S) == h

\* lines 182-186: removeRecord for every path found deleted
RECURSIVE RemoveAll(_, _)
RemoveAll(h, S) ==
  IF S = {} THEN h
  ELSE LET p == CHOOSE x \in S : TRUE
       IN RemoveAll(RemoveRecord(h, p), S \ {p})

\* IndexingHistoryService.getStats: sum of the records' chunk counts
RECURSIVE TotalChunks(_, _)
TotalChunks(h, S) ==
  IF S = {} THEN 0
  ELSE LET p == CHOOSE q \in S : TRUE
       IN h[p].chunkCount + TotalChunks(h, S \ {p})

NoDate == -1

\* IndexingHistoryService.getStats
\* a mutant of LastIndexedAt: the indexedAt of the record the loop visits last
RECURSIVE LastIndexedAtOfLast(_, _, _)
LastIndexedAtOfLast(h, S, lastIndexedAt) ==
  IF S = {} THEN lastIndexedAt
  ELSE LET p == CHOOSE q \in S : \A r \in S : q <= r
       IN LastIndexedAtOfLast(h, S \ {p}, h[p].indexedAt)

\* getStats, lines 488-493: the loop over the records of S, lastIndexedAt so far
RECURSIVE LastIndexedAt(_, _, _)
LastIndexedAt(h, S, lastIndexedAt) ==
  IF S = {} THEN lastIndexedAt
  ELSE LET p == CHOOSE q \in S : \A r \in S : q <= r
       IN LastIndexedAt(h, S \ {p},
                        IF lastIndexedAt = NoDate \/ h[p].indexedAt > lastIndexedAt
                        THEN h[p].indexedAt ELSE lastIndexedAt)

GetStats(h) ==
  [totalFiles |-> Cardinality(DOMAIN h),
   totalChunks |-> TotalChunks(h, DOMAIN h),
   lastIndexedAt |-> LastIndexedAt(h, DOMAIN h, NoDate)]

(***************************************************************************)
(* Initial state: the service has just been constructed.  The ledger is    *)
(* what loadHistory read from the ledger file a previous process left.     *)
(***************************************************************************)
\* a record a previous process wrote for some parsable content
Records ==
  {[hash |-> Md5(c), modifiedTime |-> m, chunkCount |-> GetChunkCount(c), indexedAt |-> 0] :
     c \in Contents \ {Unparsable}, m \in 0..MaxMtime}

Ledgers == UNION {[S -> Records] : S \in SUBSET Paths}

\* the ledger file: absent, holding text JSON.parse rejects (what is left of
\* the ledger `map`), or holding the JSON of the ledger `map`
NoFile == [kind |-> "missing", map |-> EmptyHistory]
CorruptFile(h) == [kind |-> "corrupt", map |-> h]
LedgerFile(h) == [kind |-> "ok", map |-> h]

\* a mutant of LoadHistory: whatever can be read from the file is used
LoadHistoryLenient(file) == file.map

\* IndexingHistoryService.loadHistory: the parsed map when the file exists and
\* parses; an empty map when it is missing or when reading or parsing throws
LoadHistory(file) == IF file.kind = "ok" THEN file.map ELSE EmptyHistory

NoResult == [added |-> 0, updated |-> 0, deleted |-> 0, skipped |-> 0, total |-> 0]

NoOutcome == [p \in Paths |-> "none"]

RunInit ==
  /\ pc = "idle"
  /\ documents = <<>>
  /\ idx = 1
  /\ added = 0 /\ updated = 0 /\ skipped = 0
  /\ result = NoResult
  /\ warned = FALSE
  /\ startHistory = EmptyHistory
  /\ outcome = NoOutcome
  /\ chunked = {} /\ embedded = {} /\ upserted = {}
  /\ createFailedAt = 0

QInit ==
  /\ qpc = [c \in Callers |-> "idle"]
  /\ createCalls = 0
  /\ createErrors = 0

NoResponse == [kind |-> "none", error |-> "", answer |-> "", sources |-> <<>>]

\* no request has been made
\* extractCompanyName returns null: `if (companyName)` treats null and the
\* empty string alike
NoCompany == <<>>

NoQuery ==
  /\ rpc = "idle"
  /\ question = <<>>
  /\ search = "none"
  /\ candidateDocs = <<>>
  /\ relevantDocs = <<>>
  /\ response = NoResponse
  /\ searchCalls = 0
  /\ generateCalls = 0
  /\ detectedCompany = NoCompany
  /\ context = <<>>

\* initializeVectorStore has set the reference
RIdle ==
  /\ vectorStore = TRUE
  /\ ensured = FALSE
  /\ NoQuery

NoContent == -1

\* nothing is indexed, the ledger file can be written
\* ---- the directory tree of the loader ----
\* A path is the sequence of its segments; "/" is the root.  The process
\* runs in /app, the documents are under /app/docs, which holds the
\* directories d and .g.
Cwd == <<"/", "app">>
Directories == {Cwd \o <<"docs">>, Cwd \o <<"docs", "d">>, Cwd \o <<"docs", ".g">>}
AllFiles == {Cwd \o <<"docs", "a">>, Cwd \o <<"docs", ".h">>,
             Cwd \o <<"docs", "d", "b">>, Cwd \o <<"docs", ".g", "c">>}

\* no reconciliation request over the tree since it was last edited
NoRun == [dirPath |-> <<>>, recursive |-> FALSE, scan |-> {}, indexed |-> {}, before |-> {},
          keyOf |-> {}]

DirIdle ==
  /\ dirDisk = [f \in AllFiles |-> NoContent]
  /\ dirHistory = EmptyHistory
  /\ dirRun = NoRun

\* the processes that hold an IndexingHistoryService over the same ledger
\* file: the running server and the scripts/index-rag-docs.ts CLI
Writers == {"server", "cli"}

NoWriter == "none"

Down == [up |-> FALSE, history |-> EmptyHistory]

WritersIdle ==
  /\ procs = [w \in Writers |-> Down]
  /\ lastWriter = NoWriter

\* the two concurrent calls of incrementalIndexDirectory
Coruns == 1..2

NoCorun == [pc |-> "idle", documents |-> <<>>, idx |-> 1, added |-> 0, updated |-> 0,
            skipped |-> 0, deleted |-> 0, kind |-> "none",
            info |-> [hash |-> 0, modifiedTime |-> 0], counted |-> {}]

VersionKeys == Paths \X {Md5(c) : c \in Contents}

CorunIdle ==
  /\ corun = [r \in Coruns |-> NoCorun]
  /\ upsertCount = [k \in VersionKeys |-> 0]

AuxInit ==
  /\ DirIdle
  /\ fullIndexed = {}
  /\ WritersIdle
  /\ CorunIdle
  /\ indexedContent = [p \in Paths |-> NoContent]
  /\ writable = TRUE
  /\ stored = {}
  /\ pointCount = [p \in Paths |-> 0]

NoCall == [pc |-> "idle", n |-> 0, ids |-> {}]

PInit ==
  /\ clock = 0
  /\ adds = [c \in Callers |-> NoCall]
  /\ points = {}
  /\ sent = 0

\* what the constructor can find where the ledger file should be: nothing,
\* or the unparsable remains of a ledger
TornLedgers == {h \in Ledgers : DOMAIN h = {1} /\ h[1].hash = Md5(1) /\ h[1].modifiedTime = 0}
StartFiles == {NoFile} \cup {CorruptFile(h) : h \in TornLedgers}

Init ==
  /\ disk \in [Paths -> FileStates]
  /\ historyFile \in StartFiles
  /\ history = LoadHistory(historyFile)
  /\ AuxInit
  /\ now = 0
  /\ edits = 0
  /\ collectionExists = FALSE
  /\ prevTotal = -1
  /\ delCount = [p \in Paths |-> 0]
  /\ RunInit
  /\ QInit
  /\ PInit
  /\ RIdle

(***************************************************************************)
(* The environment edits the directory while no run is in progress.        *)
(***************************************************************************)
Running == pc \in {"loop"}

\* whatever happens between two runs ends the "twice in a row" relation;
\* the finished run's locals are gone
Interrupt ==
  /\ pc' = "idle"
  /\ result' = NoResult
  /\ prevTotal' = -1
  /\ documents' = <<>>
  /\ idx' = 1
  /\ added' = 0 /\ updated' = 0 /\ skipped' = 0
  /\ warned' = FALSE
  /\ startHistory' = EmptyHistory
  /\ outcome' = NoOutcome
  /\ chunked' = {} /\ embedded' = {} /\ upserted' = {}
  /\ createFailedAt' = 0

\* a file is created, rewritten or touched
WriteFile(p, c, m) ==
  /\ ~Running
  /\ disk[p] # [exists |-> TRUE, content |-> c, mtime |-> m]
  /\ disk' = [disk EXCEPT ![p] = [exists |-> TRUE, content |-> c, mtime |-> m]]
  /\ edits < MaxEdits
  /\ edits' = edits + 1
  /\ Interrupt
  /\ UNCHANGED <<history, historyFile, now, collectionExists, delCount,
                 indexedContent, writable, stored, pointCount>>
  /\ UNCHANGED besideVars

\* a file is removed from disk
DeleteFile(p) ==
  /\ ~Running
  /\ disk[p].exists
  /\ disk' = [disk EXCEPT ![p] = Absent]
  /\ edits < MaxEdits
  /\ edits' = edits + 1
  /\ Interrupt
  /\ UNCHANGED <<history, historyFile, now, collectionExists, delCount,
                 indexedContent, writable, stored, pointCount>>
  /\ UNCHANGED besideVars

(***************************************************************************)
(* IndexingHistoryService.clearHistory (POST /rag/reset-history)           *)
(***************************************************************************)
\* IndexingHistoryService.saveHistory: the file receives the whole map; when
\* writeFileSync throws, the catch block logs and the file is left as it was
SaveHistory(h) == IF writable THEN LedgerFile(h) ELSE historyFile

ClearHistory ==
  /\ ~Running
  /\ history' = EmptyHistory
  /\ historyFile' = SaveHistory(history')
  /\ indexedContent' = [p \in Paths |-> NoContent]
  /\ Interrupt
  /\ pointCount' = [p \in Paths |-> 0]
  /\ UNCHANGED <<disk, now, edits, collectionExists, delCount, writable, stored>>
  /\ UNCHANGED besideVars

(***************************************************************************)
(* RagService.incrementalIndexDirectory                                    *)
(***************************************************************************)
\* lines 110-122: counters to zero, loadFromDirectory
\* a call of incrementalIndexDirectory that starts at time t
StartRunAt(t) ==
  /\ ~Running
  /\ now' = t
  /\ prevTotal' = IF pc = "done" THEN result.total ELSE -1
  /\ added' = 0 /\ updated' = 0 /\ skipped' = 0
  /\ idx' = 1
  /\ result' = NoResult
  /\ warned' = FALSE
  /\ startHistory' = history
  /\ outcome' = NoOutcome
  /\ chunked' = {} /\ embedded' = {} /\ upserted' = {}
  /\ createFailedAt' = 0
  /\ LET files == GetAllFiles IN
       IF LoadFromFilesThrows(files)
       THEN /\ pc' = "aborted"
            /\ documents' = <<>>
       ELSE /\ pc' = "loop"
            /\ documents' = LoadFromFiles(files)
  /\ UNCHANGED <<disk, history, historyFile, edits, collectionExists, delCount,
                 indexedContent, writable, stored, pointCount>>
  /\ UNCHANGED besideVars

StartRun ==
  /\ now < MaxTime
  /\ StartRunAt(now + 1)

\* what one call of RagService.addDocuments can end in: success, or a throw of
\* embedDocuments, getCollections, createCollection or client.upsert
AddOutcomes == {"ok", "embedError", "listError", "createError", "upsertError"}

\* a mutant of Fail: the catch block rethrows, the run ends without a result
FailRethrow(p) ==
  /\ outcome' = [outcome EXCEPT ![p] = "failed"]
  /\ pc' = "aborted"
  /\ idx' = idx
  /\ UNCHANGED <<history, historyFile, added, updated, skipped, delCount, indexedContent>>

\* a mutant of Fail: a failed file is counted as skipped
FailCounted(p) ==
  /\ outcome' = [outcome EXCEPT ![p] = "failed"]
  /\ pc' = pc
  /\ idx' = idx + 1
  /\ skipped' = skipped + 1
  /\ UNCHANGED <<history, historyFile, added, updated, delCount, indexedContent>>

\* lines 171-173: the file's processing threw; the error is logged, nothing
\* is counted or recorded and the loop goes on with the next document
Fail(p) ==
  /\ outcome' = [outcome EXCEPT ![p] = "failed"]
  /\ pc' = pc
  /\ idx' = idx + 1
  /\ UNCHANGED <<history, historyFile, added, updated, skipped, delCount, indexedContent>>

\* the ledger write and counter of a successfully indexed file
Recorded(doc, info, kind) ==
  LET p == doc.filePath IN
  /\ history' = RecordIndexing(history, p, info.hash, info.modifiedTime,
                               GetChunkCount(doc.content), now)
  /\ historyFile' = SaveHistory(history')
  /\ delCount' = [delCount EXCEPT ![p] = 0]
  /\ indexedContent' = [indexedContent EXCEPT ![p] = doc.content]

\* a mutant of IndexFile: the ledger record is written before addDocuments is awaited
IndexFileRecordFirst(doc, info, kind) ==
  LET p == doc.filePath IN
  \E o \in AddOutcomes :
    /\ o = "createError" => ~collectionExists
    /\ chunked' = chunked \cup {p}
    /\ embedded' = embedded \cup {p}
    /\ upserted' = IF o \in {"ok", "upsertError"} THEN upserted \cup {p} ELSE upserted
    /\ stored' = IF o = "ok" THEN stored \cup {<<p, doc.content>>} ELSE stored
    /\ pointCount' = IF o = "ok"
                     THEN [pointCount EXCEPT ![p] = AddDocumentsPoints(doc.content)]
                     ELSE pointCount
    /\ collectionExists' = (collectionExists \/ o \in {"ok", "upsertError"})
    /\ createFailedAt' = IF o = "createError" /\ createFailedAt = 0 THEN idx ELSE createFailedAt
    /\ Recorded(doc, info, kind)
    /\ pc' = pc
    /\ idx' = idx + 1
    /\ UNCHANGED skipped
    /\ IF o = "ok"
       THEN /\ outcome' = [outcome EXCEPT ![p] = kind]
            /\ added' = IF kind = "added" THEN added + 1 ELSE added
            /\ updated' = IF kind = "updated" THEN updated + 1 ELSE updated
       ELSE /\ outcome' = [outcome EXCEPT ![p] = "failed"]
            /\ UNCHANGED <<added, updated>>

\* lines 136-149 and 157-169: addDocuments (splitTexts, embedDocuments,
\* ensureCollection, client.upsert), getChunkCount, recordIndexing, counter
IndexFile(doc, info, kind) ==
  LET p == doc.filePath IN
  \E o \in AddOutcomes :
    /\ o = "createError" => ~collectionExists
    /\ chunked' = chunked \cup {p}
    /\ embedded' = embedded \cup {p}
    /\ upserted' = IF o \in {"ok", "upsertError"} THEN upserted \cup {p} ELSE upserted
    /\ stored' = IF o = "ok" THEN stored \cup {<<p, doc.content>>} ELSE stored
    /\ pointCount' = IF o = "ok"
                     THEN [pointCount EXCEPT ![p] = AddDocumentsPoints(doc.content)]
                     ELSE pointCount
    /\ collectionExists' = (collectionExists \/ o \in {"ok", "upsertError"})
    /\ createFailedAt' = IF o = "createError" /\ createFailedAt = 0 THEN idx ELSE createFailedAt
    /\ IF o = "ok"
       THEN /\ Recorded(doc, info, kind)
            /\ outcome' = [outcome EXCEPT ![p] = kind]
            /\ added' = IF kind = "added" THEN added + 1 ELSE added
            /\ updated' = IF kind = "updated" THEN updated + 1 ELSE updated
            /\ pc' = pc
            /\ idx' = idx + 1
            /\ UNCHANGED skipped
       ELSE Fail(p)

\* a mutant of SkipFile: the skip branch refreshes the ledger record
SkipFileRefresh(p) ==
  /\ skipped' = skipped + 1
  /\ outcome' = [outcome EXCEPT ![p] = "skipped"]
  /\ pc' = pc
  /\ idx' = idx + 1
  /\ history' = RecordIndexing(history, p, CalculateFileHash(p), GetFileModifiedTime(p),
                               history[p].chunkCount, now)
  /\ historyFile' = SaveHistory(history')
  /\ UNCHANGED <<added, updated, delCount, indexedContent,
                 chunked, embedded, upserted, stored, pointCount, collectionExists,
                 createFailedAt>>

\* lines 151-153: unchanged file
SkipFile(p) ==
  /\ skipped' = skipped + 1
  /\ outcome' = [outcome EXCEPT ![p] = "skipped"]
  /\ pc' = pc
  /\ idx' = idx + 1
  /\ UNCHANGED <<history, historyFile, added, updated, delCount, indexedContent,
                 chunked, embedded, upserted, stored, pointCount, collectionExists,
                 createFailedAt>>

\* lines 125-174: one iteration of the for loop
ProcessFile ==
  /\ pc = "loop"
  /\ idx <= Len(documents)
  /\ LET doc == documents[idx]
         filePath == doc.filePath
     IN IF GetFileInfoThrows(filePath)
        THEN /\ Fail(filePath)
             /\ UNCHANGED <<chunked, embedded, upserted, stored, pointCount, collectionExists,
                            createFailedAt>>
        ELSE LET fileInfo == GetFileInfo(filePath) IN
             IF IsIndexed(history, filePath)
             THEN IF HasChanged(history, filePath, fileInfo.hash)
                  THEN IndexFile(doc, fileInfo, "updated")
                  ELSE SkipFile(filePath)
             ELSE IndexFile(doc, fileInfo, "added")
  /\ UNCHANGED <<disk, now, edits, documents, result, warned, startHistory, prevTotal,
                 writable>>
  /\ UNCHANGED besideVars

\* a mutant of PointsAfterDeletion: the points of the deleted files are removed
PointsPurged(pts, deletedFiles) == {pt \in pts : pt[1] \notin deletedFiles}

\* lines 176-189: the deletion phase calls removeRecord and logger.warn only;
\* no vector-store method is called, the collection keeps what it holds
PointsAfterDeletion(pts, deletedFiles) == pts

\* lines 176-208: deletion phase and result
Finish ==
  /\ pc = "loop"
  /\ idx > Len(documents)
  /\ LET deletedFiles == FindDeletedFiles(history)
         deleted == Cardinality(deletedFiles)
         total == added + updated + skipped
     IN /\ history' = RemoveAll(history, deletedFiles)
        /\ historyFile' = IF deleted > 0 THEN SaveHistory(history') ELSE historyFile
        /\ warned' = (deleted > 0)
        /\ delCount' = [p \in Paths |->
                          IF p \in deletedFiles /\ delCount[p] < 2
                          THEN delCount[p] + 1 ELSE delCount[p]]
        /\ indexedContent' = [p \in Paths |->
                                IF p \in deletedFiles THEN NoContent ELSE indexedContent[p]]
        /\ stored' = PointsAfterDeletion(stored, deletedFiles)
        /\ pointCount' = [p \in Paths |-> IF p \in deletedFiles THEN 0 ELSE pointCount[p]]
        /\ result' = [added |-> added, updated |-> updated, deleted |-> deleted,
                      skipped |-> skipped, total |-> total]
  /\ pc' = "done"
  /\ UNCHANGED <<disk, now, edits, collectionExists, documents, idx, added, updated,
                 skipped, startHistory, outcome, chunked, embedded, upserted,
                 prevTotal, createFailedAt, writable>>
  /\ UNCHANGED besideVars

Next ==
  \/ \E p \in Paths, c \in Contents, m \in 0..MaxMtime : WriteFile(p, c, m)
  \/ \E p \in Paths : DeleteFile(p)
  \/ ClearHistory
  \/ StartRun
  \/ ProcessFile
  \/ Finish

Spec == Init /\ [][Next]_vars

(***************************************************************************)
(* The reconciliation run while another program writes into the directory: *)
(* loadFromDirectory has read the contents (line 117), getFileInfo reads   *)
(* each file again when its turn comes (line 130).                         *)
(***************************************************************************)
\* a file is rewritten while the for loop is running
ModifyDuringRun(p, c, m) ==
  /\ Running
  /\ disk[p].exists
  /\ disk[p] # [exists |-> TRUE, content |-> c, mtime |-> m]
  /\ disk' = [disk EXCEPT ![p] = [exists |-> TRUE, content |-> c, mtime |-> m]]
  /\ edits < MaxEdits
  /\ edits' = edits + 1
  /\ UNCHANGED <<history, historyFile, now, collectionExists, pc, documents, idx,
                 added, updated, skipped, result, warned, startHistory, outcome,
                 chunked, embedded, upserted, prevTotal, delCount, createFailedAt,
                 indexedContent, writable, stored, pointCount>>
  /\ UNCHANGED besideVars

NextRace ==
  \/ Next
  \/ \E p \in Paths, c \in Contents, m \in 0..MaxMtime : ModifyDuringRun(p, c, m)

SpecRace == Init /\ [][NextRace]_vars

(***************************************************************************)
(* The reconciliation run and the ledger operations while the ledger file  *)
(* can become unwritable (read-only directory, full disk).                 *)
(***************************************************************************)
\* the ledger file stops or starts accepting writes
SetWritable(b) ==
  /\ ~Running
  /\ writable # b
  /\ writable' = b
  /\ Interrupt
  /\ UNCHANGED <<disk, history, historyFile, now, edits, collectionExists, delCount,
                 indexedContent, stored, pointCount>>
  /\ UNCHANGED besideVars

NextW ==
  \/ Next
  \/ \E b \in BOOLEAN : SetWritable(b)

SpecW == Init /\ [][NextW]_vars

\* ---- the process dies inside a ledger write ----
\* saveHistory writes the ledger in place with fs.writeFileSync, which opens
\* the file truncating it and then writes the text.  A process that dies
\* inside the call leaves the file as it was (before the open), cut short
\* (after the open, before the last byte) or complete.
WriteFileSyncCrash(h) == {historyFile, CorruptFile(h), LedgerFile(h)}

\* the next process starts from the file: loadHistory in the constructor
Restart(file, contentOf, pointsOf) ==
  /\ historyFile' = file
  /\ history' = LoadHistory(file)
  /\ indexedContent' = [q \in Paths |->
                          IF q \in DOMAIN history' THEN contentOf[q] ELSE NoContent]
  /\ pointCount' = [q \in Paths |-> IF q \in DOMAIN history' THEN pointsOf[q] ELSE 0]
  /\ Interrupt
  /\ UNCHANGED <<disk, now, edits, delCount, writable>>
  /\ UNCHANGED besideVars

\* recordIndexing after a successful upsert of a new or changed file
CrashInRecord ==
  /\ pc = "loop"
  /\ idx <= Len(documents)
  /\ writable
  /\ LET doc == documents[idx]
         filePath == doc.filePath
     IN /\ ~GetFileInfoThrows(filePath)
        /\ LET fileInfo == GetFileInfo(filePath)
               h == RecordIndexing(history, filePath, fileInfo.hash, fileInfo.modifiedTime,
                                   GetChunkCount(doc.content), now)
           IN /\ IsIndexed(history, filePath) => HasChanged(history, filePath, fileInfo.hash)
              /\ stored' = stored \cup {<<filePath, doc.content>>}
              /\ collectionExists' = TRUE
              /\ \E file \in WriteFileSyncCrash(h) :
                   IF file = LedgerFile(h)
                   THEN Restart(file,
                                [indexedContent EXCEPT ![filePath] = doc.content],
                                [pointCount EXCEPT ![filePath] = AddDocumentsPoints(doc.content)])
                   ELSE Restart(file, indexedContent, pointCount)

\* removeRecord of the first deleted file in the deletion phase
CrashInRemove ==
  /\ pc = "loop"
  /\ idx > Len(documents)
  /\ writable
  /\ \E p \in FindDeletedFiles(history) :
       \E file \in WriteFileSyncCrash(RemoveRecord(history, p)) :
         Restart(file, indexedContent, pointCount)
  /\ UNCHANGED <<stored, collectionExists>>

\* clearHistory
CrashInClear ==
  /\ ~Running
  /\ writable
  /\ \E file \in WriteFileSyncCrash(EmptyHistory) :
       Restart(file, indexedContent, pointCount)
  /\ UNCHANGED <<stored, collectionExists>>

NextCrash ==
  \/ Next
  \/ CrashInRecord
  \/ CrashInRemove
  \/ CrashInClear

SpecCrash == Init /\ [][NextCrash]_vars

(***************************************************************************)
(* QdrantVectorStore.ensureCollection called by concurrent addDocuments /  *)
(* addVectors calls; every await is a step of its own.                     *)
(***************************************************************************)
runVars == <<disk, history, historyFile, now, edits, pc, documents, idx,
             added, updated, skipped, result, warned, startHistory, outcome,
             chunked, embedded, upserted, prevTotal, delCount, createFailedAt,
             indexedContent, writable, stored, pointCount>>

mainVars == <<runVars, dirVars, otherVars>>

InitQ ==
  /\ disk = [p \in Paths |-> Absent]
  /\ historyFile = NoFile
  /\ history = LoadHistory(historyFile)
  /\ AuxInit
  /\ now = 0
  /\ edits = 0
  /\ collectionExists = FALSE
  /\ prevTotal = -1
  /\ delCount = [p \in Paths |-> 0]
  /\ RunInit
  /\ QInit
  /\ PInit
  /\ RIdle

\* ensureCollection is entered: client.getCollections() is awaited
EnsureCall(c) ==
  /\ qpc[c] \in {"idle", "ensured", "failed"}
  /\ qpc' = [qpc EXCEPT ![c] = "listing"]
  /\ UNCHANGED <<collectionExists, createCalls, createErrors>>
  /\ UNCHANGED <<mainVars, pointVars, queryVars>>

\* getCollections answers; collectionExists is computed from the answer
EnsureListed(c) ==
  /\ qpc[c] = "listing"
  /\ qpc' = [qpc EXCEPT ![c] = IF collectionExists THEN "ensured" ELSE "creating"]
  /\ UNCHANGED <<collectionExists, createCalls, createErrors>>
  /\ UNCHANGED <<mainVars, pointVars, queryVars>>

\* client.createCollection is served: Qdrant rejects the name when the
\* collection exists, and the catch block rethrows
EnsureCreate(c) ==
  /\ qpc[c] = "creating"
  /\ createCalls' = createCalls + 1
  /\ IF collectionExists
     THEN /\ qpc' = [qpc EXCEPT ![c] = "failed"]
          /\ createErrors' = createErrors + 1
          /\ UNCHANGED collectionExists
     ELSE /\ qpc' = [qpc EXCEPT ![c] = "ensured"]
          /\ collectionExists' = TRUE
          /\ UNCHANGED createErrors
  /\ UNCHANGED <<mainVars, pointVars, queryVars>>

NextQ ==
  \/ \E c \in Callers : EnsureCall(c)
  \/ \E c \in Callers : EnsureListed(c)
  \/ \E c \in Callers : EnsureCreate(c)

SpecQ == InitQ /\ [][NextQ]_vars

(***************************************************************************)
(* QdrantVectorStore.addDocuments / addVectors called by concurrent        *)
(* requests: point ids are `${Date.now()}-${index}`.  Every await is a     *)
(* step of its own; the collection exists.                                 *)
(***************************************************************************)
MainIdle ==
  /\ disk = [p \in Paths |-> Absent]
  /\ historyFile = NoFile
  /\ history = LoadHistory(historyFile)
  /\ AuxInit
  /\ now = 0
  /\ edits = 0
  /\ prevTotal = -1
  /\ delCount = [p \in Paths |-> 0]
  /\ RunInit

InitP ==
  /\ MainIdle
  /\ collectionExists = TRUE
  /\ QInit
  /\ PInit
  /\ RIdle

\* the ids of one call: `${Date.now()}-${index}` for index = 0 .. n-1
PointIds(t, n) == {<<t, index>> : index \in 0..(n - 1)}

\* addDocuments is entered with n chunks: embedDocuments is awaited
AddDocumentsCall(c, n) ==
  /\ adds[c].pc = "idle"
  /\ adds' = [adds EXCEPT ![c] = [pc |-> "embedding", n |-> n, ids |-> {}]]
  /\ UNCHANGED <<clock, points, sent>>
  /\ UNCHANGED <<mainVars, collectionExists, qVars, queryVars>>

\* embedDocuments answers: ensureCollection is awaited
Embedded(c) ==
  /\ adds[c].pc = "embedding"
  /\ adds' = [adds EXCEPT ![c].pc = "ensuring"]
  /\ UNCHANGED <<clock, points, sent>>
  /\ UNCHANGED <<mainVars, collectionExists, qVars, queryVars>>

\* addVectors is entered with n vectors: ensureCollection is awaited
AddVectorsCall(c, n) ==
  /\ adds[c].pc = "idle"
  /\ adds' = [adds EXCEPT ![c] = [pc |-> "ensuring", n |-> n, ids |-> {}]]
  /\ UNCHANGED <<clock, points, sent>>
  /\ UNCHANGED <<mainVars, collectionExists, qVars, queryVars>>

\* ensureCollection returns; documents.map builds the points, client.upsert
\* is awaited
MakePoints(c) ==
  /\ adds[c].pc = "ensuring"
  /\ adds' = [adds EXCEPT ![c].pc = "upserting",
                          ![c].ids = PointIds(clock, adds[c].n)]
  /\ UNCHANGED <<clock, points, sent>>
  /\ UNCHANGED <<mainVars, collectionExists, qVars, queryVars>>

\* Qdrant serves the upsert: a point whose id is already stored is replaced
Upsert(c) ==
  /\ adds[c].pc = "upserting"
  /\ points' = {pt \in points : pt.id \notin adds[c].ids}
                 \cup {[id |-> i, owner |-> c] : i \in adds[c].ids}
  /\ sent' = sent + adds[c].n
  /\ adds' = [adds EXCEPT ![c].pc = "done"]
  /\ UNCHANGED clock
  /\ UNCHANGED <<mainVars, collectionExists, qVars, queryVars>>

\* a millisecond passes
Tick ==
  /\ clock < MaxClock
  /\ clock' = clock + 1
  /\ UNCHANGED <<adds, points, sent>>
  /\ UNCHANGED <<mainVars, collectionExists, qVars, queryVars>>

NextP ==
  \/ \E c \in Callers, n \in 1..MaxChunks : AddDocumentsCall(c, n)
  \/ \E c \in Callers : Embedded(c)
  \/ \E c \in Callers, n \in 1..MaxChunks : AddVectorsCall(c, n)
  \/ \E c \in Callers : MakePoints(c)
  \/ \E c \in Callers : Upsert(c)
  \/ Tick

SpecP == InitP /\ [][NextP]_vars

(***************************************************************************)
(* RagService.query (POST /rag/query): similarity search, company-name     *)
(* re-ranking, answer generation.  A text is a sequence of words; "KO1"    *)
(* and "KO2" stand for the Hangul names of the first two gazetteer         *)
(* entries, "coupang" and "toss" for their English names.                  *)
(***************************************************************************)
Words == {"KO1", "KO2", "coupang", "Coupang", "toss", "Toss", "x"}

\* String.prototype.toLowerCase, word by word
LowerOf(w) ==
  CASE w = "Coupang" -> "coupang"
    [] w = "Toss" -> "toss"
    [] OTHER -> w

ToLowerCase(text) == [i \in 1..Len(text) |-> LowerOf(text[i])]

\* String.prototype.includes
Includes(text, part) ==
  \E i \in 0..(Len(text) - Len(part)) : SubSeq(text, i + 1, i + Len(part)) = part

\* lines 292: relevantDocs.map((doc) => doc.pageContent).join: the page
\* contents in order; the page content of a point is told by its id
Context(docs) == [i \in 1..Len(docs) |-> docs[i].id]

\* a mutant of Take: the whole list
TakeAll(list, k) == list

\* Array.prototype.slice(0, k)
Take(list, k) == SubSeq(list, 1, IF Len(list) < k THEN Len(list) ELSE k)

\* extractCompanyName: the first entries of the company list
companies ==
  << [ko |-> <<"KO1">>, en |-> <<"coupang">>],
     [ko |-> <<"KO2">>, en |-> <<"toss">>] >>

\* a mutant of ExtractCompanyName: the company named first in the question
ExtractCompanyNameByPosition(q) ==
  LET lowerQuestion == ToLowerCase(q)
      At(k) == {i \in 1..Len(companies) :
                  <<q[k]>> = companies[i].ko \/ <<lowerQuestion[k]>> = companies[i].en}
      named == {k \in 1..Len(q) : At(k) # {}}
  IN IF named = {} THEN NoCompany
     ELSE companies[CHOOSE i \in At(CHOOSE k \in named : \A l \in named : k <= l) : TRUE].ko

\* lines 330-335: the loop over the company list from entry i on
RECURSIVE ExtractFrom(_, _)
ExtractFrom(q, i) ==
  IF i > Len(companies) THEN NoCompany
  ELSE IF Includes(q, companies[i].ko) \/ Includes(ToLowerCase(q), companies[i].en)
       THEN companies[i].ko
       ELSE ExtractFrom(q, i + 1)

\* lines 309-338: the Korean name of the first company of the list whose
\* Korean name is in the question or whose English name is in the
\* lower-cased question
ExtractCompanyName(q) == ExtractFrom(q, 1)

\* lines 262-276: the filter predicate; a missing metadata field counts as ''
DocMatches(doc, companyName) ==
  LET fileName == ToLowerCase(doc.metadata.fileName)
      docCompanyName == ToLowerCase(doc.metadata.company_name)
      companyNameEn == ToLowerCase(doc.metadata.company_name_en)
      searchTerm == ToLowerCase(companyName)
  IN \/ Includes(fileName, searchTerm)
     \/ Includes(docCompanyName, searchTerm)
     \/ Includes(companyNameEn, searchTerm)

\* candidateDocs.filter(...)
FilterDocs(docs, companyName) ==
  LET Test(doc) == DocMatches(doc, companyName)
  IN SelectSeq(docs, Test)

\* a mutant of Rerank: no fallback when the filter leaves nothing
RerankNoFallback(q, docs) ==
  LET companyName == ExtractCompanyName(q)
  IN IF companyName # NoCompany
     THEN Take(FilterDocs(docs, companyName), FinalK)
     ELSE Take(docs, FinalK)

\* a mutant of Rerank: matching documents are moved to the front and the
\* rest fills the remaining places
RerankBoost(q, docs) ==
  LET companyName == ExtractCompanyName(q)
      Other(doc) == ~DocMatches(doc, companyName)
  IN IF companyName # NoCompany
     THEN Take(FilterDocs(docs, companyName) \o SelectSeq(docs, Other), FinalK)
     ELSE Take(docs, FinalK)

\* lines 254-289: relevantDocs
Rerank(q, docs) ==
  LET companyName == ExtractCompanyName(q)
  IN IF companyName # NoCompany
     THEN LET filteredDocs == FilterDocs(docs, companyName)
          IN IF Len(filteredDocs) > 0
             THEN Take(filteredDocs, FinalK)
             ELSE Take(docs, FinalK)
     ELSE Take(docs, FinalK)

\* the questions and the search results the model draws from
Questions == UNION {[1..n -> {"KO1", "Coupang", "toss", "x"}] : n \in 1..MaxQuestion}

Metadatas ==
  { [fileName |-> <<"x">>, company_name |-> <<"KO1">>, company_name_en |-> <<"Coupang">>],
    [fileName |-> <<"Toss", "x">>, company_name |-> <<"KO2">>, company_name_en |-> <<"Toss">>],
    [fileName |-> <<"coupang", "x">>, company_name |-> <<>>, company_name_en |-> <<"Coupang">>],
    [fileName |-> <<"x">>, company_name |-> <<>>, company_name_en |-> <<>>] }

\* what the collection can answer to a search: its points in similarity
\* order; id is the rank of the point
Hits ==
  UNION { {[i \in 1..n |-> [id |-> i, metadata |-> m[i]]] : m \in [1..n -> Metadatas]} :
          n \in 0..MaxHits }

NotInitialized == "vector store not initialized"
SearchFailed == "search failed"
GenerateFailed == "generation failed"

InitR ==
  /\ MainIdle
  /\ collectionExists = TRUE
  /\ QInit
  /\ PInit
  /\ vectorStore \in BOOLEAN
  /\ ensured = FALSE
  /\ NoQuery

ErrorResponse(message) == [kind |-> "error", error |-> message, answer |-> "", sources |-> <<>>]

\* a mutant of QueryCall: without a vector store the search yields no documents
QueryCallLenient(q) ==
  /\ rpc \in {"idle", "answered", "failed"}
  /\ question' = q
  /\ response' = NoResponse
  /\ candidateDocs' = <<>>
  /\ detectedCompany' = NoCompany
  /\ context' = <<>>
  /\ IF vectorStore
     THEN /\ search' = "pending"
          /\ searchCalls' = 1
          /\ generateCalls' = 0
          /\ relevantDocs' = <<>>
          /\ rpc' = "searching"
     ELSE /\ search' = "noStore"
          /\ searchCalls' = 0
          /\ generateCalls' = 1
          /\ relevantDocs' = Rerank(q, <<>>)
          /\ rpc' = "generating"
  /\ UNCHANGED <<vectorStore, ensured>>
  /\ UNCHANGED <<mainVars, collectionExists, qVars, pointVars>>

\* RagController.query -> RagService.query -> VectorStoreService
\* .similaritySearch(question, 10): without a vector store it throws, the
\* controller's catch returns {error}; otherwise the search is awaited
QueryCall(q) ==
  /\ rpc \in {"idle", "answered", "failed"}
  /\ question' = q
  /\ candidateDocs' = <<>>
  /\ detectedCompany' = NoCompany
  /\ relevantDocs' = <<>>
  /\ context' = <<>>
  /\ generateCalls' = 0
  /\ IF vectorStore
     THEN /\ search' = "pending"
          /\ searchCalls' = 1
          /\ response' = NoResponse
          /\ rpc' = "searching"
     ELSE /\ search' = "noStore"
          /\ searchCalls' = 0
          /\ response' = ErrorResponse(NotInitialized)
          /\ rpc' = "failed"
  /\ UNCHANGED <<vectorStore, ensured>>
  /\ UNCHANGED <<mainVars, collectionExists, qVars, pointVars>>

\* the search answers: lines 254-292, generateAnswer is awaited
SearchReturns(hits) ==
  /\ rpc = "searching"
  /\ search' = "ok"
  /\ candidateDocs' = Take(hits, CandidateK)
  /\ detectedCompany' = ExtractCompanyName(question)
  /\ relevantDocs' = Rerank(question, candidateDocs')
  /\ context' = Context(relevantDocs')
  /\ generateCalls' = 1
  /\ rpc' = "generating"
  /\ UNCHANGED <<vectorStore, ensured, question, response, searchCalls>>
  /\ UNCHANGED <<mainVars, collectionExists, qVars, pointVars>>

\* a mutant of SearchFails: a failed search counts as a search without results
SearchFailsEmpty ==
  /\ rpc = "searching"
  /\ search' = "failed"
  /\ candidateDocs' = <<>>
  /\ detectedCompany' = ExtractCompanyName(question)
  /\ relevantDocs' = Rerank(question, candidateDocs')
  /\ context' = Context(relevantDocs')
  /\ generateCalls' = 1
  /\ rpc' = "generating"
  /\ UNCHANGED <<vectorStore, ensured, question, response, searchCalls>>
  /\ UNCHANGED <<mainVars, collectionExists, qVars, pointVars>>

\* embedQuery or client.search rejects: nothing between
\* similaritySearchWithScore and the controller catches it before the
\* controller's catch, which returns {error}
SearchFails ==
  /\ rpc = "searching"
  /\ search' = "failed"
  /\ response' = ErrorResponse(SearchFailed)
  /\ rpc' = "failed"
  /\ UNCHANGED <<vectorStore, ensured, question, candidateDocs, relevantDocs, searchCalls,
                 generateCalls,
                 detectedCompany, context>>
  /\ UNCHANGED <<mainVars, collectionExists, qVars, pointVars>>

\* generateAnswer answers: the controller returns the answer and the sources
GenerateReturns ==
  /\ rpc = "generating"
  /\ response' = [kind |-> "answer", error |-> "", answer |-> "generated",
                  sources |-> relevantDocs]
  /\ rpc' = "answered"
  /\ UNCHANGED <<vectorStore, ensured, question, search, candidateDocs, relevantDocs,
                 searchCalls, generateCalls,
                 detectedCompany, context>>
  /\ UNCHANGED <<mainVars, collectionExists, qVars, pointVars>>

\* generateAnswer rejects
GenerateFails ==
  /\ rpc = "generating"
  /\ response' = ErrorResponse(GenerateFailed)
  /\ rpc' = "failed"
  /\ UNCHANGED <<vectorStore, ensured, question, search, candidateDocs, relevantDocs,
                 searchCalls, generateCalls,
                 detectedCompany, context>>
  /\ UNCHANGED <<mainVars, collectionExists, qVars, pointVars>>

\* how far QdrantVectorStore.fromDocuments gets: the constructor, then
\* addDocuments of the new instance (embedDocuments, ensureCollection,
\* client.upsert)
FromDocumentsOutcomes == {"ok", "constructError", "embedError", "ensureError", "upsertError"}

\* VectorStoreService.addDocuments without a vector store: the reference is
\* assigned when fromDocuments resolves
StoreAddDocuments ==
  /\ ~vectorStore
  /\ \E o \in FromDocumentsOutcomes :
       /\ vectorStore' = (o = "ok")
       /\ ensured' = (ensured \/ o \in {"ok", "upsertError"})
  /\ UNCHANGED <<rpc, question, search, candidateDocs, relevantDocs, response,
                 searchCalls, generateCalls,
                 detectedCompany, context>>
  /\ UNCHANGED <<mainVars, collectionExists, qVars, pointVars>>

NextR ==
  \/ \E q \in Questions : QueryCall(q)
  \/ \E hits \in Hits : SearchReturns(hits)
  \/ SearchFails
  \/ GenerateReturns
  \/ GenerateFails
  \/ StoreAddDocuments

SpecR == InitR /\ [][NextR]_vars

(***************************************************************************)
(* The indexing paths beside reconciliation: loadDocumentsFromDirectory    *)
(* (POST /rag/index-directory and scripts/index-rag-docs.ts) and           *)
(* loadDocumentFromFile (POST /rag/upload), with queries, while runs go on.*)
(***************************************************************************)
\* what these paths leave alone of the run and the ledger
fullIdleVars == <<disk, history, historyFile, now, edits, pc, documents, idx,
                  added, updated, skipped, result, warned, startHistory, outcome,
                  chunked, embedded, upserted, prevTotal, delCount, createFailedAt,
                  indexedContent, writable, pointCount>>

\* RagService.addDocuments(texts, metadata) for the documents of the files
\* of S: one splitTexts, one VectorStoreService.addDocuments
AddDocumentsOf(S) ==
  \E o \in AddOutcomes :
    /\ o = "createError" => ~collectionExists
    /\ collectionExists' = (collectionExists \/ o \in {"ok", "upsertError"})
    /\ stored' = IF o = "ok" THEN stored \cup {<<p, disk[p].content>> : p \in S} ELSE stored
    /\ fullIndexed' = IF o = "ok" THEN fullIndexed \cup {<<p, disk[p].content>> : p \in S}
                      ELSE fullIndexed

\* a mutant of LoadDocumentsFromDirectory: full indexing records what it indexed
LoadDocumentsFromDirectoryRecording ==
  LET files == GetAllFiles IN
  /\ ~LoadFromFilesThrows(files)
  /\ files # <<>>
  /\ collectionExists' = TRUE
  /\ stored' = stored \cup {<<files[i], disk[files[i]].content>> : i \in 1..Len(files)}
  /\ fullIndexed' = fullIndexed \cup {<<files[i], disk[files[i]].content>> : i \in 1..Len(files)}
  /\ history' = RecordIndexing(history, files[1], CalculateFileHash(files[1]),
                               GetFileModifiedTime(files[1]),
                               GetChunkCount(disk[files[1]].content), now)
  /\ historyFile' = SaveHistory(history')
  /\ UNCHANGED <<disk, now, edits, pc, documents, idx,
                 added, updated, skipped, result, warned, startHistory, outcome,
                 chunked, embedded, upserted, prevTotal, delCount, createFailedAt,
                 indexedContent, writable, pointCount>>
  /\ UNCHANGED <<qVars, pointVars, queryVars, dirVars, writerVars, corunVars>>

\* RagService.loadDocumentsFromDirectory, lines 73-91
LoadDocumentsFromDirectory ==
  LET files == GetAllFiles IN
  /\ ~LoadFromFilesThrows(files)
  /\ files # <<>>
  /\ AddDocumentsOf({files[i] : i \in 1..Len(files)})
  /\ UNCHANGED fullIdleVars
  /\ UNCHANGED <<qVars, pointVars, queryVars, dirVars, writerVars, corunVars>>

\* RagService.loadDocumentFromFile, lines 59-64
LoadDocumentFromFile(p) ==
  /\ ~LoadFromFileThrows(p)
  /\ AddDocumentsOf({p})
  /\ UNCHANGED fullIdleVars
  /\ UNCHANGED <<qVars, pointVars, queryVars, dirVars, writerVars, corunVars>>

\* the directory is as Init found it: the files' contents range over FileStates
NextFull ==
  \/ \E p \in Paths : DeleteFile(p)
  \/ ClearHistory
  \/ StartRun
  \/ ProcessFile
  \/ Finish
  \/ LoadDocumentsFromDirectory
  \/ \E p \in Paths : LoadDocumentFromFile(p)
  \/ QueryCall(<<"x">>)
  \/ SearchReturns(<<>>)
  \/ GenerateReturns

SpecFull == Init /\ [][NextFull]_vars

(***************************************************************************)
(* Reconciliation called again and again.  The directory is edited at most *)
(* MaxEdits times, so it stops changing; time values past MaxTime are not  *)
(* told apart, so the number of runs is not bounded.  Every call of        *)
(* addDocuments can fail, and for each file a call that succeeds comes if  *)
(* the file is tried again and again.                                      *)
(***************************************************************************)
RunAgain == StartRunAt(IF now < MaxTime THEN now + 1 ELSE MaxTime)

\* the step of the loop in which addDocuments succeeds for p
IndexedOk(p) ==
  /\ ProcessFile
  /\ outcome[p] = "none"
  /\ outcome'[p] \in {"added", "updated"}

NextAgain ==
  \/ \E p \in Paths, c \in Contents, m \in 0..MaxMtime : WriteFile(p, c, m)
  \/ \E p \in Paths : DeleteFile(p)
  \/ RunAgain
  \/ ProcessFile
  \/ Finish

SpecAgain ==
  /\ Init
  /\ [][NextAgain]_vars
  /\ WF_vars(RunAgain)
  /\ WF_vars(ProcessFile)
  /\ WF_vars(Finish)
  /\ \A p \in Paths : SF_vars(IndexedOk(p))

(***************************************************************************)
(* Two processes over one ledger file: each constructs its own             *)
(* IndexingHistoryService, which loads the file once, in the constructor,  *)
(* and afterwards only writes it.                                          *)
(***************************************************************************)
\* what the ledger calls of a process leave alone
writerIdleVars == <<disk, history, edits, pc, documents, idx,
                    added, updated, skipped, result, warned, startHistory, outcome,
                    chunked, embedded, upserted, prevTotal, delCount, createFailedAt,
                    indexedContent, writable, stored, pointCount>>

\* IndexingHistoryService.constructor, lines 370-376: a process starts
Construct(w) ==
  /\ ~procs[w].up
  /\ procs' = [procs EXCEPT ![w] = [up |-> TRUE, history |-> LoadHistory(historyFile)]]
  /\ UNCHANGED <<lastWriter, historyFile, now>>
  /\ UNCHANGED writerIdleVars
  /\ UNCHANGED <<collectionExists, qVars, pointVars, queryVars, dirVars, fullVars, corunVars>>

\* the process ends; its map is gone
Exit(w) ==
  /\ procs[w].up
  /\ procs' = [procs EXCEPT ![w] = Down]
  /\ UNCHANGED <<lastWriter, historyFile, now>>
  /\ UNCHANGED writerIdleVars
  /\ UNCHANGED <<collectionExists, qVars, pointVars, queryVars, dirVars, fullVars, corunVars>>

\* a mutant of RecordIndexingBy: the process reads the file again and records
\* into what it finds there
RecordIndexingByReloading(w, p, c, m) ==
  /\ procs[w].up
  /\ now < MaxTime
  /\ now' = now + 1
  /\ LET h == LoadHistory(historyFile)
         merged == [q \in DOMAIN h \cup DOMAIN procs[w].history |->
                      IF q \in DOMAIN h THEN h[q] ELSE procs[w].history[q]]
     IN procs' = [procs EXCEPT ![w].history =
                    RecordIndexing(merged, p, Md5(c), m, GetChunkCount(c), now')]
  /\ historyFile' = SaveHistory(procs'[w].history)
  /\ lastWriter' = w
  /\ UNCHANGED writerIdleVars
  /\ UNCHANGED <<collectionExists, qVars, pointVars, queryVars, dirVars, fullVars, corunVars>>

\* IndexingHistoryService.recordIndexing in process w, lines 386-400:
\* this.history.set, then saveHistory writes the whole map
RecordIndexingBy(w, p, c, m) ==
  /\ procs[w].up
  /\ now < MaxTime
  /\ now' = now + 1
  /\ procs' = [procs EXCEPT ![w].history =
                 RecordIndexing(procs[w].history, p, Md5(c), m, GetChunkCount(c), now')]
  /\ historyFile' = SaveHistory(procs'[w].history)
  /\ lastWriter' = w
  /\ UNCHANGED writerIdleVars
  /\ UNCHANGED <<collectionExists, qVars, pointVars, queryVars, dirVars, fullVars, corunVars>>

\* IndexingHistoryService.removeRecord in process w, lines 451-454
RemoveRecordBy(w, p) ==
  /\ procs[w].up
  /\ p \in DOMAIN procs[w].history
  /\ procs' = [procs EXCEPT ![w].history = RemoveRecord(procs[w].history, p)]
  /\ historyFile' = SaveHistory(procs'[w].history)
  /\ lastWriter' = w
  /\ UNCHANGED now
  /\ UNCHANGED writerIdleVars
  /\ UNCHANGED <<collectionExists, qVars, pointVars, queryVars, dirVars, fullVars, corunVars>>

\* IndexingHistoryService.clearHistory in process w, lines 538-542
ClearHistoryBy(w) ==
  /\ procs[w].up
  /\ procs[w].history # EmptyHistory
  /\ procs' = [procs EXCEPT ![w].history = EmptyHistory]
  /\ historyFile' = SaveHistory(EmptyHistory)
  /\ lastWriter' = w
  /\ UNCHANGED now
  /\ UNCHANGED writerIdleVars
  /\ UNCHANGED <<collectionExists, qVars, pointVars, queryVars, dirVars, fullVars, corunVars>>

NextWriters ==
  \/ \E w \in Writers : Construct(w)
  \/ \E w \in Writers : Exit(w)
  \/ \E w \in Writers, p \in Paths, c \in Contents \ {Unparsable}, m \in 0..MaxMtime :
       RecordIndexingBy(w, p, c, m)
  \/ \E w \in Writers, p \in Paths : RemoveRecordBy(w, p)
  \/ \E w \in Writers : ClearHistoryBy(w)

SpecWriters == Init /\ [][NextWriters]_vars

(***************************************************************************)
(* Two calls of incrementalIndexDirectory in one process (two requests to  *)
(* POST /rag/incremental-index): they share the IndexingHistoryService and *)
(* the vector store and give way to each other at their awaits.  The code  *)
(* between two awaits of a call runs without interruption.                 *)
(***************************************************************************)
\* what the two calls leave alone
corunIdleVars == <<disk, now, edits, pc, documents, idx,
                   added, updated, skipped, result, warned, startHistory, outcome,
                   chunked, embedded, upserted, prevTotal, delCount, createFailedAt,
                   indexedContent, writable>>

\* lines 110-120: the call starts and awaits loadFromDirectory
CoStart(r) ==
  /\ corun[r].pc = "idle"
  /\ LET files == GetAllFiles IN
       corun' = [corun EXCEPT ![r] =
                   IF LoadFromFilesThrows(files)
                   THEN [NoCorun EXCEPT !.pc = "aborted"]
                   ELSE [NoCorun EXCEPT !.pc = "loop", !.documents = LoadFromFiles(files)]]
  /\ UNCHANGED <<history, historyFile, stored, pointCount, collectionExists, upsertCount>>
  /\ UNCHANGED corunIdleVars
  /\ UNCHANGED <<qVars, pointVars, queryVars, dirVars, fullVars, writerVars>>

\* lines 125-154 up to the await: getFileInfo, isIndexed and hasChanged on
\* the shared ledger; an unchanged file is skipped, for a new or changed one
\* the call awaits addDocuments
CoCheck(r) ==
  /\ corun[r].pc = "loop"
  /\ corun[r].idx <= Len(corun[r].documents)
  /\ LET filePath == corun[r].documents[corun[r].idx].filePath
         fileInfo == GetFileInfo(filePath)
     IN corun' = [corun EXCEPT ![r] =
          IF GetFileInfoThrows(filePath)
          THEN [@ EXCEPT !.idx = @ + 1]
          ELSE IF IsIndexed(history, filePath) /\ ~HasChanged(history, filePath, fileInfo.hash)
          THEN [@ EXCEPT !.skipped = @ + 1, !.idx = @ + 1]
          ELSE [@ EXCEPT !.pc = "awaiting", !.info = fileInfo,
                         !.kind = IF IsIndexed(history, filePath) THEN "updated" ELSE "added"]]
  /\ UNCHANGED <<history, historyFile, stored, pointCount, collectionExists, upsertCount>>
  /\ UNCHANGED corunIdleVars
  /\ UNCHANGED <<qVars, pointVars, queryVars, dirVars, fullVars, writerVars>>

\* lines 139-150 and 158-169 after the await: addDocuments has settled; on
\* success recordIndexing and the counter, on a throw the catch of line 171
CoResume(r) ==
  /\ corun[r].pc = "awaiting"
  /\ LET doc == corun[r].documents[corun[r].idx]
         p == doc.filePath
         key == <<p, Md5(doc.content)>>
     IN \E o \in AddOutcomes :
          /\ o = "createError" => ~collectionExists
          /\ collectionExists' = (collectionExists \/ o \in {"ok", "upsertError"})
          /\ stored' = IF o = "ok" THEN stored \cup {<<p, doc.content>>} ELSE stored
          /\ pointCount' = IF o = "ok"
                           THEN [pointCount EXCEPT ![p] = AddDocumentsPoints(doc.content)]
                           ELSE pointCount
          /\ upsertCount' = IF o = "ok" THEN [upsertCount EXCEPT ![key] = @ + 1]
                            ELSE upsertCount
          /\ history' = IF o = "ok"
                        THEN RecordIndexing(history, p, corun[r].info.hash,
                                            corun[r].info.modifiedTime,
                                            GetChunkCount(doc.content), now)
                        ELSE history
          /\ historyFile' = IF o = "ok" THEN SaveHistory(history') ELSE historyFile
          /\ corun' = [corun EXCEPT ![r] =
                IF o # "ok" THEN [@ EXCEPT !.pc = "loop", !.idx = @ + 1]
                ELSE [@ EXCEPT !.pc = "loop", !.idx = @ + 1,
                               !.added = IF corun[r].kind = "added" THEN @ + 1 ELSE @,
                               !.updated = IF corun[r].kind = "updated" THEN @ + 1 ELSE @,
                               !.counted = @ \cup {key}]]
  /\ UNCHANGED corunIdleVars
  /\ UNCHANGED <<qVars, pointVars, queryVars, dirVars, fullVars, writerVars>>

\* lines 176-208: findDeletedFiles, removeRecord for each, the result
CoFinish(r) ==
  /\ corun[r].pc = "loop"
  /\ corun[r].idx > Len(corun[r].documents)
  /\ LET deletedFiles == FindDeletedFiles(history)
     IN /\ history' = RemoveAll(history, deletedFiles)
        /\ historyFile' = IF deletedFiles # {} THEN SaveHistory(history') ELSE historyFile
        /\ corun' = [corun EXCEPT ![r].pc = "done",
                                  ![r].deleted = Cardinality(deletedFiles)]
  /\ UNCHANGED <<stored, pointCount, collectionExists, upsertCount>>
  /\ UNCHANGED corunIdleVars
  /\ UNCHANGED <<qVars, pointVars, queryVars, dirVars, fullVars, writerVars>>

NextCorun ==
  \/ \E r \in Coruns : CoStart(r)
  \/ \E r \in Coruns : CoCheck(r)
  \/ \E r \in Coruns : CoResume(r)
  \/ \E r \in Coruns : CoFinish(r)

SpecCorun == Init /\ [][NextCorun]_vars

(***************************************************************************)
(* DocumentLoaderService.getAllFiles over a directory tree, and the run    *)
(* requested with a relative or an absolute dirPath, over the documents    *)
(* directory or its sub-directory, recursively or not.                     *)
(***************************************************************************)
\* the dirPath values of POST /rag/incremental-index
DirPaths == {<<"docs">>, Cwd \o <<"docs">>, <<"docs", "d">>}

\* path.isAbsolute
IsAbsolute(p) == Len(p) > 0 /\ p[1] = "/"

\* how fs resolves a path: a relative one against process.cwd()
Resolve(p) == IF IsAbsolute(p) THEN p ELSE Cwd \o p

\* path.join(dirPath, item)
PathJoin(dirPath, item) == Append(dirPath, item)

\* item.startsWith('.')
StartsWithDot(item) == item \in {".h", ".g"}

\* directory d is an ancestor of path g
Under(d, g) == Len(d) < Len(g) /\ SubSeq(g, 1, Len(d)) = d

\* fs.existsSync of a file path
ExistsSyncAt(p) == Resolve(p) \in AllFiles /\ dirDisk[Resolve(p)] # NoContent

\* fs.readdirSync(dirPath): the names of the entries of the directory
ReaddirSync(dirPath) ==
  LET d == Resolve(dirPath)
      present == {f \in AllFiles : dirDisk[f] # NoContent} \cup Directories
  IN {g[Len(d) + 1] : g \in {e \in present : Under(d, e)}}

\* fs.statSync(fullPath).isDirectory()
IsDirectory(fullPath) == Resolve(fullPath) \in Directories

\* lines 157-179; the order of the files plays no part in what follows
RECURSIVE GetAllFilesIn(_, _)
GetAllFilesIn(dirPath, recursive) ==
  UNION { LET fullPath == PathJoin(dirPath, item)
          IN IF IsDirectory(fullPath)
             THEN IF recursive THEN GetAllFilesIn(fullPath, recursive) ELSE {}
             ELSE IF ~StartsWithDot(item) THEN {fullPath} ELSE {}
          : item \in ReaddirSync(dirPath) }

\* FileHashUtil.getFileInfo(filePath).hash
HashAt(filePath) == Md5(dirDisk[Resolve(filePath)])

\* loadJsonFile, lines 75-86: jsonData.metadata, of which the model keeps
\* the filePath field.  Content 2 of docs/a is a JSON document whose
\* metadata object names docs/d/b as its filePath; no other content has one.
NoPath == <<>>
JsonMetadataFilePath(f, c) ==
  IF f = Cwd \o <<"docs", "a">> /\ c = 2 THEN <<"docs", "d", "b">> ELSE NoPath

\* a mutant of LoadFromFileAt: the metadata of the document cannot replace
\* the path of the file
LoadFromFileAtKeepsPath(fullPath) ==
  [foundAt |-> fullPath, filePath |-> fullPath, content |-> dirDisk[Resolve(fullPath)]]

\* loadFromFile, lines 25-69: metadata = {fileName, filePath, ...} and, for
\* a JSON document, {...metadata, ...result.metadata}
LoadFromFileAt(fullPath) ==
  LET f == Resolve(fullPath)
      own == JsonMetadataFilePath(f, dirDisk[f])
  IN [foundAt |-> fullPath,
      filePath |-> IF own # NoPath THEN own ELSE fullPath,
      content |-> dirDisk[f]]

\* the place of a file in the order of fs.readdirSync (names sorted):
\* .g before .h before a before d
ReaddirRank(f) ==
  CASE f[Len(f)] = "c" -> 1
    [] f[Len(f)] = ".h" -> 2
    [] f[Len(f)] = "a" -> 3
    [] OTHER -> 4

\* the documents of the files of S in the order getAllFiles returned them
RECURSIVE LoadFromFilesAt(_)
LoadFromFilesAt(S) ==
  IF S = {} THEN <<>>
  ELSE LET fullPath == CHOOSE x \in S :
                         \A y \in S : ReaddirRank(Resolve(x)) <= ReaddirRank(Resolve(y))
       IN <<LoadFromFileAt(fullPath)>> \o LoadFromFilesAt(S \ {fullPath})

\* lines 125-174: the loop over the documents from position i on; addDocuments
\* throws for the documents found at the paths of failed.  The result is the
\* ledger with the set of keys indexed and the <<found at, key>> pairs
RECURSIVE RunLoop(_, _, _, _)
RunLoop(acc, docs, i, failed) ==
  IF i > Len(docs) THEN acc
  ELSE LET doc == docs[i]
           filePath == doc.filePath
           seen == [acc EXCEPT !.keyOf = @ \cup {<<doc.foundAt, filePath>>}]
       IN IF ~ExistsSyncAt(filePath) THEN RunLoop(seen, docs, i + 1, failed)
          ELSE IF IsIndexed(acc.history, filePath)
                  /\ ~HasChanged(acc.history, filePath, HashAt(filePath))
               THEN RunLoop(seen, docs, i + 1, failed)
               ELSE IF doc.foundAt \in failed THEN RunLoop(seen, docs, i + 1, failed)
                    ELSE RunLoop([seen EXCEPT
                                    !.history = RecordIndexing(@, filePath, HashAt(filePath), 0,
                                                               GetChunkCount(doc.content), 0),
                                    !.indexed = @ \cup {filePath}],
                                 docs, i + 1, failed)

\* a mutant of FindDeletedIn: the records of the files the scan did not return
FindDeletedByScan(h) == {filePath \in DOMAIN h : filePath \notin dirRun'.scan}

\* IndexingHistoryService.findDeletedFiles
FindDeletedIn(h) == {filePath \in DOMAIN h : ~ExistsSyncAt(filePath)}

\* what the edits of the tree leave alone of the run over Paths
treeIdleVars == <<disk, history, historyFile, now, pc, documents, idx,
                  added, updated, skipped, result, warned, startHistory, outcome,
                  chunked, embedded, upserted, prevTotal, delCount, createFailedAt,
                  indexedContent, writable, stored, pointCount>>

\* a file under /app/docs is created or rewritten
DirWriteFile(f, c) ==
  /\ edits < MaxDirEdits
  /\ dirDisk[f] # c
  /\ dirDisk' = [dirDisk EXCEPT ![f] = c]
  /\ edits' = edits + 1
  /\ dirRun' = NoRun
  /\ UNCHANGED dirHistory
  /\ UNCHANGED <<treeIdleVars, collectionExists, qVars, pointVars, queryVars, otherVars>>

\* a file under /app/docs is removed
DirDeleteFile(f) ==
  /\ edits < MaxDirEdits
  /\ dirDisk[f] # NoContent
  /\ dirDisk' = [dirDisk EXCEPT ![f] = NoContent]
  /\ edits' = edits + 1
  /\ dirRun' = NoRun
  /\ UNCHANGED dirHistory
  /\ UNCHANGED <<treeIdleVars, collectionExists, qVars, pointVars, queryVars, otherVars>>

\* incrementalIndexDirectory(dirPath, recursive), lines 100-203: the scan,
\* the per-file loop (addDocuments fails for the files of failed) and the
\* deletion phase
DirRun(dirPath, recursive) ==
  LET scan == GetAllFilesIn(dirPath, recursive)
      loaded == LoadFromFilesAt(scan)
  IN \E failed \in SUBSET scan :
       LET done == RunLoop([history |-> dirHistory, indexed |-> {}, keyOf |-> {}],
                           loaded, 1, failed)
       IN /\ dirRun' = [dirPath |-> dirPath, recursive |-> recursive, scan |-> scan,
                        indexed |-> done.indexed, before |-> DOMAIN dirHistory,
                        keyOf |-> done.keyOf]
          /\ dirHistory' = RemoveAll(done.history, FindDeletedIn(done.history))
       /\ UNCHANGED dirDisk
       /\ UNCHANGED <<runVars, collectionExists, qVars, pointVars, queryVars, otherVars>>

InitDir ==
  /\ MainIdle
  /\ collectionExists = TRUE
  /\ QInit
  /\ PInit
  /\ RIdle

NextDir ==
  \/ \E f \in AllFiles, c \in 1..MaxContent : DirWriteFile(f, c)
  \/ \E f \in AllFiles : DirDeleteFile(f)
  \/ \E dirPath \in DirPaths, recursive \in BOOLEAN : DirRun(dirPath, recursive)

SpecDir == InitDir /\ [][NextDir]_vars

TypeOK ==
  /\ disk \in [Paths -> FileStates]
  /\ DOMAIN history \subseteq Paths
  /\ now \in 0..MaxTime
  /\ pc \in {"idle", "loop", "done", "aborted"}

(***************************************************************************)
(* Properties of the reconciliation run                                    *)
(***************************************************************************)
InRun == pc \in {"loop", "done"}

\* the paths of the documents the current run has already been through
Processed == {documents[i].filePath : i \in 1..(idx - 1)}
Scanned == {documents[i].filePath : i \in 1..Len(documents)}
With(o) == {p \in Paths : outcome[p] = o}

\* C1 as stated: whenever a run directly follows a completed run with nothing
\* happening in between, it returns added = 0, updated = 0, deleted = 0 and
\* skipped equal to the first run's total.
C1_Idempotence_Orig ==
  (pc = "done" /\ prevTotal >= 0) =>
    /\ result.added = 0
    /\ result.updated = 0
    /\ result.deleted = 0
    /\ result.skipped = prevTotal

\* C1 amended: a run that directly follows a completed run over the same
\* unchanged directory returns deleted = 0 and skipped equal to the first
\* run's total; it returns added = 0 and updated = 0 when no file's
\* processing failed in the first run (its total was the number of files
\* scanned).
C1_Idempotence ==
  (pc = "done" /\ prevTotal >= 0) =>
    /\ result.deleted = 0
    /\ result.skipped = prevTotal
    /\ prevTotal = Len(documents) =>
         /\ result.added = 0
         /\ result.updated = 0
         /\ result.total = prevTotal

C1_Witness ==
  /\ pc = "done"
  /\ prevTotal = MaxFiles
  /\ result.skipped = MaxFiles
  /\ result.added = 0

C3_DeletionDetection ==
  /\ \A p \in Paths : delCount[p] <= 1
  /\ pc = "done" =>
       LET missing == {p \in DOMAIN startHistory : ~ExistsSync(p)} IN
       /\ result.deleted = Cardinality(missing)
       /\ \A p \in missing : p \notin DOMAIN history /\ delCount[p] = 1
       /\ \A p \in DOMAIN history : ExistsSync(p)

C3_Witness ==
  /\ pc = "done"
  /\ result.deleted = 0
  /\ \E p \in Paths : delCount[p] = 1 /\ ~ExistsSync(p)

C5_TotalIsFilesFound ==
  pc = "done" => result.total = Len(documents)

\* C6: a file classified as unchanged is not chunked, embedded or upserted
\* in the run and its ledger record is left as it was; a run in which every
\* scanned file is unchanged issues no chunking, embedding or upsert call.
C6_SkipFrame ==
  InRun =>
    /\ \A p \in With("skipped") :
         /\ p \notin chunked \cup embedded \cup upserted
         /\ p \in DOMAIN history
         /\ history[p] = startHistory[p]
    /\ Processed \subseteq With("skipped") =>
         chunked = {} /\ embedded = {} /\ upserted = {}

C6_Witness ==
  /\ pc = "done"
  /\ Len(documents) = MaxFiles
  /\ Scanned = With("skipped")
  /\ \E p \in Scanned :
       /\ history[p].indexedAt < now
       /\ history[p].modifiedTime # GetFileModifiedTime(p)

\* C7: a file whose indexing threw is in none of the counters and keeps the
\* ledger record it had when the run started (none, or the old hash); the run
\* is not aborted by it: every scanned file is processed and a result is
\* returned.
C7_FailureIsolation ==
  /\ pc = "aborted" => With("failed") = {}
  /\ InRun =>
       /\ \A p \in With("failed") :
            /\ p \in Processed
            /\ (p \in DOMAIN history) = (p \in DOMAIN startHistory)
            /\ p \in DOMAIN history => history[p] = startHistory[p]
       /\ added = Cardinality(With("added"))
       /\ updated = Cardinality(With("updated"))
       /\ skipped = Cardinality(With("skipped"))
       /\ With("none") \cap Processed = {}
  /\ pc = "done" => Processed = Scanned

C7_Witness ==
  /\ pc = "done"
  /\ Len(documents) = 2
  /\ outcome[documents[1].filePath] = "failed"
  /\ documents[1].filePath \in DOMAIN history
  /\ history[documents[1].filePath].hash # CalculateFileHash(documents[1].filePath)
  /\ outcome[documents[2].filePath] = "added"
  /\ result.total = 1

\* C8: a file that cannot be loaded never aborts the run.
C8_LoadErrorIsolated ==
  (\E p \in Paths : ExistsSync(p) /\ LoadFromFileThrows(p)) => pc # "aborted"

\* C9 as stated: once createCollection has failed for a document, no later
\* document is attempted and the run returns no result.
C9_CreateFailureAborts_Orig ==
  createFailedAt > 0 =>
    /\ pc # "done"
    /\ idx <= createFailedAt + 1

\* C9 amended: a createCollection failure is caught like any other per-file
\* failure: the document it hit is counted nowhere and gets no new record,
\* the loop goes on with the documents after it and the run returns counts.
C9_CreateFailureContained ==
  createFailedAt > 0 =>
    /\ pc \in {"loop", "done"}
    /\ idx > createFailedAt
    /\ outcome[documents[createFailedAt].filePath] = "failed"
    /\ pc = "done" =>
         /\ idx = Len(documents) + 1
         /\ \A i \in 1..Len(documents) : outcome[documents[i].filePath] # "none"
         /\ result.total = Len(documents) - Cardinality(With("failed"))

C9_Witness ==
  /\ pc = "done"
  /\ createFailedAt = 1
  /\ Len(documents) = 2
  /\ outcome[documents[2].filePath] = "added"
  /\ collectionExists

\* C10: however ensureCollection calls interleave, createCollection is sent
\* at most once and no call fails with "already exists".
C10_EnsureIdempotent ==
  /\ createCalls <= 1
  /\ createErrors = 0
  /\ \A c \in Callers : qpc[c] # "failed"

(***************************************************************************)
(* Properties of the vector-store adapter's point ids                      *)
(***************************************************************************)
Done == {c \in Callers : adds[c].pc = "done"}

\* C11: point ids are never reused.  No two points written to the collection
\* share an id, so an upsert never overwrites a stored point: every point
\* handed to client.upsert by a completed call is still stored under its own
\* id, and the stored point count is the number of points sent so far (after
\* a re-index the old points are all there and the count grew by the number
\* of new chunks).
C11_IdsNeverReused ==
  /\ Cardinality(points) = sent
  /\ \A c \in Done : \A i \in adds[c].ids : [id |-> i, owner |-> c] \in points

(***************************************************************************)
(* Properties of the ledger                                                *)
(***************************************************************************)
\* C12: fingerprint invariant.  In every reachable state each ledger record's
\* hash is the hash of exactly the content that was chunked and upserted when
\* the record was written, also when the file is rewritten on disk between
\* the loader's read and the hash computation.
C12_FingerprintOfIndexedContent ==
  \A p \in DOMAIN history : history[p].hash = Md5(indexedContent[p])

\* the ledger a process constructed now would load
Persisted == LoadHistory(historyFile)

\* C13: after recordIndexing, removeRecord or clearHistory returns, the ledger
\* file holds exactly the in-memory mapping: a restarted process loads the
\* same ledger, and every file a returned result counts as added or updated
\* has a persisted record with its current hash.
C13_LedgerPersisted ==
  /\ Persisted = history
  /\ pc = "done" =>
       \A p \in With("added") \cup With("updated") :
         /\ p \in DOMAIN Persisted
         /\ Persisted[p].hash = CalculateFileHash(p)

\* the first run of a process: the clock advances when a run starts
FirstRun == InRun /\ now = 1

\* C14 as stated: with the ledger file missing or corrupt at construction
\* (every initial state), loading yields an empty ledger and the next run
\* classifies every discovered file as added, none as updated or skipped.
C14_EveryFileAdded_Orig ==
  /\ now = 0 => history = EmptyHistory
  /\ FirstRun /\ pc = "done" =>
       /\ result.added = Cardinality(Scanned)
       /\ result.updated = 0 /\ result.skipped = 0

\* C14, amended: with the ledger file missing or corrupt at construction,
\* loading yields an empty ledger, and the next run classifies no file as
\* updated or skipped: every file it processes is either added or fails and
\* is counted nowhere, and the returned total is the number of added files.
C14_MissingOrCorruptLedger ==
  /\ now = 0 => history = EmptyHistory
  /\ FirstRun =>
       /\ updated = 0 /\ skipped = 0
       /\ \A p \in Processed : outcome[p] \in {"added", "failed"}
       /\ added = Cardinality(With("added"))
  /\ FirstRun /\ pc = "done" =>
       /\ result.updated = 0 /\ result.skipped = 0
       /\ result.added = result.total

\* the ledger file is still the torn one, its record names file 1 with the
\* hash file 1 has now, and the completed first run has sent file 1 to
\* indexing (which failed) instead of skipping it; the other file was added
C14_Witness ==
  /\ FirstRun /\ pc = "done"
  /\ historyFile.kind = "corrupt"
  /\ 1 \in DOMAIN historyFile.map
  /\ ExistsSync(1) /\ historyFile.map[1].hash = CalculateFileHash(1)
  /\ 1 \in chunked /\ outcome[1] = "failed"

\* a run that started from an empty ledger, as the run after clearHistory does
FromEmpty == InRun /\ startHistory = EmptyHistory

\* C15: clearHistory empties the ledger and persists the empty state; after
\* it getStats reports totalFiles = 0 and totalChunks = 0, and the next run
\* classifies every file it processes successfully as added, with updated = 0,
\* skipped = 0 and deleted = 0.
C15_ClearForcesFullReindex ==
  /\ [][ClearHistory =>
          /\ history' = EmptyHistory
          /\ Persisted' = EmptyHistory
          /\ GetStats(history').totalFiles = 0
          /\ GetStats(history').totalChunks = 0]_vars
  /\ [](FromEmpty =>
          /\ updated = 0 /\ skipped = 0
          /\ \A p \in Processed : outcome[p] \in {"added", "failed"}
          /\ pc = "done" =>
               /\ result.updated = 0 /\ result.skipped = 0
               /\ result.deleted = 0)

(***************************************************************************)
(* Properties of the deletion phase                                        *)
(***************************************************************************)
\* C20: deleting a ledger record never touches the vector database and the
\* gap is surfaced.  The step that ends a run (the deletion phase) leaves the
\* collection as it was, so the points of a deleted file remain stored, and
\* every run that returns deleted > 0 has logged the manual-cleanup warning.
C20_DeletionLeavesPoints ==
  /\ [][pc = "loop" /\ pc' = "done" => stored' = stored]_vars
  /\ [](pc = "done" /\ result.deleted > 0 => warned)

\* a completed run has removed the record of a missing file whose chunks are
\* still in the collection, and has warned
C20_Witness ==
  /\ pc = "done" /\ result.deleted > 0 /\ warned
  /\ \E p \in Paths :
       /\ ~ExistsSync(p) /\ p \notin DOMAIN history /\ p \in DOMAIN startHistory
       /\ \E c \in Contents : <<p, c>> \in stored

(***************************************************************************)
(* Properties of the query pipeline                                        *)
(***************************************************************************)
\* the retrieval step of the current request has returned
Retrieved == search = "ok" /\ rpc \in {"generating", "answered"}

\* the question names a gazetteer entity and no fetched candidate matches it
NamedNoMatch ==
  /\ ExtractCompanyName(question) # NoCompany
  /\ FilterDocs(candidateDocs, ExtractCompanyName(question)) = <<>>

\* C16 as stated: whenever the question names a gazetteer entity and none of
\* the fetched candidates matches it, retrieval returns finalK (= 4) chunks,
\* the first finalK of the unfiltered candidate list, never an empty result.
C16_FallbackReturnsFinalK_Orig ==
  Retrieved /\ NamedNoMatch =>
    /\ relevantDocs = Take(candidateDocs, FinalK)
    /\ Len(relevantDocs) = FinalK
    /\ relevantDocs # <<>>

\* C16, amended: whenever the question names a gazetteer entity and none of
\* the fetched candidates matches it, retrieval returns the first finalK of the
\* unfiltered candidate list: finalK chunks when at least finalK candidates
\* were fetched, all candidates otherwise, and an empty result only when the
\* search itself returned nothing.
C16_FallbackReturnsTop ==
  Retrieved /\ NamedNoMatch =>
    /\ relevantDocs = Take(candidateDocs, FinalK)
    /\ Len(candidateDocs) >= FinalK => Len(relevantDocs) = FinalK
    /\ Len(candidateDocs) < FinalK => relevantDocs = candidateDocs
    /\ relevantDocs = <<>> => candidateDocs = <<>>

\* an answered request whose question names a company, with more than finalK
\* candidates none of which matches: the sources are the first finalK
C16_Witness ==
  /\ rpc = "answered" /\ search = "ok" /\ NamedNoMatch
  /\ Len(candidateDocs) > FinalK
  /\ Len(response.sources) = FinalK

\* list r is list c with some elements left out (ids are ranks in c)
IsSubsequence(r, c) ==
  /\ \A i \in 1..Len(r) : r[i].id \in 1..Len(c) /\ c[r[i].id] = r[i]
  /\ \A i, j \in 1..Len(r) : i < j => r[i].id < r[j].id

\* C17: re-ranking is order-preserving.  The returned chunks are a
\* subsequence of the candidate list the similarity search returned: nothing
\* is added, duplicated or altered, and any two returned chunks keep their
\* candidate order.
C17_OrderPreserving ==
  /\ Retrieved => IsSubsequence(relevantDocs, candidateDocs)
  /\ rpc = "answered" => response.sources = relevantDocs

\* an answered request where the filter dropped a candidate ranked above a
\* returned one
C17_Witness ==
  /\ rpc = "answered" /\ search = "ok"
  /\ Len(response.sources) >= 2
  /\ \E i \in 1..(Len(relevantDocs) - 1) : relevantDocs[i + 1].id > relevantDocs[i].id + 1
  /\ relevantDocs[1].id > 1

\* C18: a query issued while the adapter holds no vector-store reference
\* fails fast with a distinct error: no search and no answer generation is
\* made, and the caller gets that error, never an answer with empty sources.
C18_NoStoreFailsFast ==
  search = "noStore" =>
    /\ rpc = "failed"
    /\ response = ErrorResponse(NotInitialized)
    /\ NotInitialized \notin {SearchFailed, GenerateFailed}
    /\ searchCalls = 0 /\ generateCalls = 0

C18_Witness ==
  /\ ~vectorStore /\ search = "noStore"
  /\ rpc = "failed" /\ response.kind = "error"

\* C19: when the vector database search fails during a query, the failure
\* reaches the caller as an error: no empty candidate list is substituted,
\* generation is not invoked and no answer is returned.
C19_SearchFailureSurfaces ==
  search = "failed" =>
    /\ rpc = "failed"
    /\ response = ErrorResponse(SearchFailed)
    /\ relevantDocs = <<>>
    /\ generateCalls = 0

C19_Witness ==
  /\ search = "failed" /\ searchCalls = 1
  /\ rpc = "failed" /\ response.kind = "error"

(***************************************************************************)
(* Further properties of the reconciliation run                            *)
(***************************************************************************)
\* the completed run found the file recorded under p gone and the same
\* content under q, a path the ledger did not know
Moved(p, q) ==
  /\ pc = "done" /\ p # q
  /\ p \in DOMAIN startHistory /\ ~ExistsSync(p)
  /\ q \notin DOMAIN startHistory /\ ExistsSync(q)
  /\ CalculateFileHash(q) = startHistory[p].hash

\* C23 as stated: a file moved from p to q between two runs is recognised by
\* the next run as one deletion plus one addition: p is counted in deleted,
\* q in added, and afterwards the ledger has a record for q and none for p.
C23_MoveIsDeletePlusAdd_Orig ==
  \A p, q \in Paths :
    Moved(p, q) =>
      /\ delCount[p] = 1 /\ result.deleted >= 1 /\ p \notin DOMAIN history
      /\ outcome[q] = "added" /\ result.added >= 1 /\ q \in DOMAIN history

\* C23, amended: when the next run returns, p is counted in deleted and has no
\* record; q is counted in added and has a record with the file's hash when
\* its indexing succeeded, and is counted nowhere and has no record when its
\* indexing failed.
C23_MoveIsDeletePlusAdd ==
  \A p, q \in Paths :
    Moved(p, q) =>
      /\ delCount[p] = 1 /\ result.deleted >= 1 /\ p \notin DOMAIN history
      /\ outcome[q] \in {"added", "failed"}
      /\ outcome[q] = "added" =>
           /\ result.added >= 1
           /\ q \in DOMAIN history /\ history[q].hash = CalculateFileHash(q)
      /\ outcome[q] = "failed" => q \notin DOMAIN history

C23_Witness ==
  \E p, q \in Paths :
    /\ Moved(p, q) /\ outcome[q] = "added"
    /\ result.deleted = 1 /\ result.added = 1

\* the record of p is one the current run wrote
WrittenInRun(p) ==
  /\ p \in DOMAIN history
  /\ p \in DOMAIN startHistory => history[p] # startHistory[p]

\* C24: record-after-upsert ordering.  For every file classified new or
\* changed, recordIndexing follows the successful upsert of its chunks: a file
\* the run counts as added or updated has been upserted in this run, and in
\* no reachable state does the ledger hold a record for a path whose content
\* was not upserted successfully before the record was written.
C24_RecordAfterUpsert ==
  /\ InRun => \A p \in With("added") \cup With("updated") : p \in upserted
  /\ InRun => \A p \in DOMAIN history : WrittenInRun(p) => p \in upserted
  /\ \A p \in DOMAIN history : <<p, indexedContent[p]>> \in stored

\* a run has recorded a changed file after upserting it, while another file's
\* upsert failed and left no record
C24_Witness ==
  /\ InRun
  /\ \E p \in With("updated") : p \in upserted /\ p \in DOMAIN history
  /\ \E p \in With("failed") : p \in upserted /\ p \notin DOMAIN history

C25_NoPartialWrite ==
  [][historyFile'.kind = "corrupt" => historyFile' = historyFile]_vars

(***************************************************************************)
(* Further properties of the query pipeline                                *)
(***************************************************************************)
\* the positions of the candidates one of whose three metadata fields
\* contains the token, compared in lower case
KeptPositions(c, token) ==
  {i \in 1..Len(c) :
     \E field \in {"fileName", "company_name", "company_name_en"} :
       Includes(ToLowerCase(c[i].metadata[field]), ToLowerCase(token))}

\* the reference retrieval: the first FinalK of the kept candidates when an
\* entity was extracted and some candidate is kept, else of all candidates
ReferenceRetrieval(q, c) ==
  LET token == ExtractCompanyName(q)
      kept == IF token = NoCompany THEN {} ELSE KeptPositions(c, token)
      from == IF kept # {} THEN kept ELSE 1..Len(c)
      n == IF Cardinality(from) < FinalK THEN Cardinality(from) ELSE FinalK
      Nth(k) == CHOOSE i \in from : Cardinality({j \in from : j < i}) = k - 1
  IN [k \in 1..n |-> c[Nth(k)]]

\* C27: the retrieval result equals the reference function of the question
\* and the candidate list, and exactly these chunks, in this order, form
\* the context passed to generation and the returned source list.
C27_RetrievalIsReference ==
  Retrieved =>
    LET ref == ReferenceRetrieval(question, candidateDocs)
    IN /\ relevantDocs = ref
       /\ generateCalls = 1
       /\ context = [k \in 1..Len(ref) |-> ref[k].id]
       /\ rpc = "answered" => response.kind = "answer" /\ response.sources = ref

\* an answered query whose filter kept more than FinalK candidates and
\* dropped others
C27_Witness ==
  /\ Retrieved /\ rpc = "answered"
  /\ detectedCompany # NoCompany
  /\ Cardinality(KeptPositions(candidateDocs, detectedCompany)) = FinalK
  /\ Len(candidateDocs) > FinalK
  /\ response.sources = relevantDocs /\ Len(relevantDocs) = FinalK
  /\ relevantDocs # SubSeq(candidateDocs, 1, FinalK)

\* the entries of the company list one of whose forms occurs in the question
MatchingEntries(q) ==
  {i \in 1..Len(companies) :
     \E k \in 1..Len(q) : <<q[k]>> = companies[i].ko \/ <<LowerOf(q[k])>> = companies[i].en}

\* question r holds the words of question q in another order
Reordered(q, r) ==
  /\ Len(q) = Len(r)
  /\ \E f \in [1..Len(q) -> 1..Len(q)] :
       /\ \A i, j \in 1..Len(q) : i # j => f[i] # f[j]
       /\ \A i \in 1..Len(q) : r[i] = q[f[i]]

\* C28: entity extraction returns the entity of the first entry of the
\* gazetteer, in gazetteer order, one of whose forms occurs in the question,
\* wherever and in whichever order names occur in the question, and no
\* entity when no entry matches.
C28_FirstGazetteerEntryWins ==
  Retrieved =>
    /\ MatchingEntries(question) = {} => detectedCompany = NoCompany
    /\ \A i \in MatchingEntries(question) :
         (\A j \in MatchingEntries(question) : i <= j) => detectedCompany = companies[i].ko
    /\ \A r \in Questions : Reordered(question, r) => ExtractCompanyName(r) = detectedCompany

\* a question that names the second entry before the first
C28_Witness ==
  /\ Retrieved
  /\ question = <<"toss", "KO1">>
  /\ detectedCompany = <<"KO1">>

\* the question names entry i of the company list by its English name only
NamedInEnglishOnly(q, i) ==
  /\ Includes(ToLowerCase(q), companies[i].en)
  /\ ~Includes(q, companies[i].ko)
  /\ MatchingEntries(q) = {i}

\* the metadata names entry i by the English fields only
IdentifiedInEnglishOnly(doc, i) ==
  /\ \/ Includes(ToLowerCase(doc.metadata.fileName), companies[i].en)
     \/ Includes(ToLowerCase(doc.metadata.company_name_en), companies[i].en)
  /\ doc.metadata.company_name = <<>>
  /\ ~Includes(doc.metadata.fileName, companies[i].ko)

\* C29: when the question names a gazetteer entity only by its
\* transliterated form, a candidate whose metadata identifies that entity
\* only through its transliterated fields is kept by the entity filter: it
\* passes the filter predicate, and when it is among the first FinalK
\* candidates it is among the documents retrieved.
C29_TransliteratedKept ==
  Retrieved =>
    \A i \in 1..Len(companies) : \A k \in 1..Len(candidateDocs) :
      NamedInEnglishOnly(question, i) /\ IdentifiedInEnglishOnly(candidateDocs[k], i)
        => /\ DocMatches(candidateDocs[k], detectedCompany)
           /\ k <= FinalK => \E n \in 1..Len(relevantDocs) : relevantDocs[n] = candidateDocs[k]

(***************************************************************************)
(* Properties of the directory scan and of runs over the tree              *)
(***************************************************************************)
\* the files under dirPath none of whose segments below dirPath starts with
\* a dot, named as the loader names them; without recursion only the files
\* directly in dirPath
NonHiddenEntries(dirPath, recursive) ==
  LET d == Resolve(dirPath)
      Below(f) == SubSeq(f, Len(d) + 1, Len(f))
  IN {dirPath \o Below(f) :
        f \in {g \in AllFiles :
                 /\ dirDisk[g] # NoContent
                 /\ Under(d, g)
                 /\ \A i \in (Len(d) + 1)..Len(g) : ~StartsWithDot(g[i])
                 /\ recursive \/ Len(g) = Len(d) + 1}}

\* C21: the directory scan returns exactly the non-hidden entries under
\* dirPath: no file whose name starts with a dot and no file under a
\* directory whose name starts with a dot; without recursion only the files
\* directly in dirPath, with recursion the files of all nested non-hidden
\* directories.
C21_ScanSkipsHidden ==
  dirRun # NoRun => dirRun.scan = NonHiddenEntries(dirRun.dirPath, dirRun.recursive)

\* C22: every ledger key is the absolute path of its file, so a file has at
\* most one record however the directory was named in the request, and a
\* run never indexes a file that is unchanged since it was recorded under
\* another name of the same path.
C22_OneRecordPerFile ==
  /\ \A k \in DOMAIN dirHistory : IsAbsolute(k)
  /\ \A k1, k2 \in DOMAIN dirHistory : Resolve(k1) = Resolve(k2) => k1 = k2
  /\ \A k \in dirRun.indexed : \A k2 \in dirRun.before :
       k2 # k /\ Resolve(k2) = Resolve(k) /\ k2 \in DOMAIN dirHistory
         => dirHistory[k2].hash # HashAt(k)

\* C26: a record whose file exists on disk is never removed by a run, also
\* when the file is absent from the run's scan; a record the run removed is
\* one whose file does not exist at the deletion phase.
C26_ExistingRecordKept ==
  dirRun # NoRun =>
    \A k \in dirRun.before :
      /\ ExistsSyncAt(k) => k \in DOMAIN dirHistory
      /\ k \notin DOMAIN dirHistory => ~ExistsSyncAt(k)

\* a run that did not scan a recorded file that exists, kept its record and
\* removed the record of a file that is gone
C26_Witness ==
  /\ dirRun # NoRun
  /\ \E k \in dirRun.before :
       k \notin dirRun.scan /\ ExistsSyncAt(k) /\ k \in DOMAIN dirHistory
  /\ \E k \in dirRun.before : k \notin DOMAIN dirHistory /\ ~ExistsSyncAt(k)

(***************************************************************************)
(* Properties of the ledger statistics                                     *)
(***************************************************************************)
\* the sum of the chunkCount of the records of the paths 1..n
RECURSIVE ChunkSum(_)
ChunkSum(n) ==
  IF n = 0 THEN 0
  ELSE (IF n \in DOMAIN history THEN history[n].chunkCount ELSE 0) + ChunkSum(n - 1)

\* C31: after any sequence of record, remove and clear operations getStats
\* returns totalFiles equal to the number of records, totalChunks equal to
\* the sum of their chunkCount and lastIndexedAt equal to the greatest
\* indexedAt among them, or none when the ledger is empty; recording an
\* already recorded path overwrites its record and leaves totalFiles
\* unchanged.
C31_StatsOfLedger ==
  /\ [](LET stats == GetStats(history)
        IN /\ stats.totalFiles = Cardinality(DOMAIN history)
           /\ stats.totalChunks = ChunkSum(MaxFiles)
           /\ DOMAIN history = {} => stats.lastIndexedAt = NoDate
           /\ DOMAIN history # {} =>
                /\ \E p \in DOMAIN history : stats.lastIndexedAt = history[p].indexedAt
                /\ \A p \in DOMAIN history : history[p].indexedAt <= stats.lastIndexedAt)
  /\ [][\A p \in DOMAIN history :
          p \in DOMAIN history' /\ history'[p] # history[p]
            => /\ DOMAIN history' = DOMAIN history
               /\ GetStats(history').totalFiles = GetStats(history).totalFiles
               /\ \A q \in DOMAIN history \ {p} : history'[q] = history[q]]_vars

\* two records written at different times, the newer one under the smaller
\* path and written over an older record of that path
C31_Witness ==
  /\ DOMAIN history = {1, 2}
  /\ history[1].indexedAt > history[2].indexedAt
  /\ outcome[1] = "updated"
  /\ history[1].chunkCount # history[2].chunkCount
  /\ GetStats(history).totalFiles = 2
  /\ GetStats(history).lastIndexedAt = history[1].indexedAt

(***************************************************************************)
(* Properties of the vector-store reference                                *)
(***************************************************************************)
\* C33: a failure while initialising the vector store at startup leaves the
\* reference unset and queries fail with the uninitialized-store error,
\* until a later addDocuments succeeds in ensuring the collection; after
\* that the reference is set, never reverts to unset, and queries no longer
\* raise that error.
C33_DegradedUntilEnsured ==
  /\ [](ensured => vectorStore)
  /\ [][ensured /\ rpc' # rpc => search' # "noStore"]_vars
  /\ [][vectorStore => vectorStore']_vars

C38_MtimeIsIgnored ==
  InRun =>
    \A p \in Processed :
      ExistsSync(p) =>
        /\ outcome[p] = "skipped"
             <=> p \in DOMAIN startHistory /\ startHistory[p].hash = CalculateFileHash(p)
        /\ outcome[p] = "skipped" =>
             /\ p \in DOMAIN history
             /\ history[p].hash = startHistory[p].hash
             /\ history[p].modifiedTime = startHistory[p].modifiedTime
             /\ history[p].indexedAt = startHistory[p].indexedAt
             /\ history[p].chunkCount = startHistory[p].chunkCount

\* a run that skipped a file whose modification time differs from the
\* recorded one while it indexed another file again
C38_Witness ==
  /\ pc = "done"
  /\ \E p \in With("skipped") :
       /\ GetFileModifiedTime(p) # startHistory[p].modifiedTime
       /\ history[p].modifiedTime = startHistory[p].modifiedTime
       /\ history[p].indexedAt < now
  /\ With("updated") # {}

\* the ledger changes in a step of a run or in clearHistory only, and no
\* step of full indexing, single-file indexing or a query changes it
LedgerFrame ==
  /\ [][(history' # history \/ historyFile' # historyFile) =>
          \/ pc = "loop" /\ (idx' = idx + 1 \/ pc' = "done")
          \/ ~Running /\ history' = EmptyHistory]_vars
  /\ [][(fullIndexed' # fullIndexed \/ rpc' # rpc \/ search' # search
             \/ response' # response) =>
          history' = history /\ historyFile' = historyFile]_vars

\* the files the run has been through that were indexed outside
\* reconciliation with their current content and have no record
FullIndexedOnly ==
  {p \in Processed : p \notin DOMAIN startHistory /\ <<p, disk[p].content>> \in fullIndexed}

\* C37 as stated: the ledger is modified only by reconciliation and
\* clearHistory, and every file indexed through the full-index path is
\* classified as added by the next reconciliation run.
C37_LedgerFrame_Orig ==
  /\ LedgerFrame
  /\ [](InRun => \A p \in FullIndexedOnly : outcome[p] = "added")

\* C37: only a step of a reconciliation run and clearHistory change the
\* in-memory ledger or the ledger file; full indexing, single-file indexing
\* and every step of a query leave both unchanged, also while a run is in
\* progress; and a file indexed through these paths that the ledger has no
\* record of is taken as a new file by the next run: never skipped or
\* updated, indexed again, and counted as added unless that indexing fails.
C37_LedgerFrame ==
  /\ LedgerFrame
  /\ [](InRun =>
         \A p \in FullIndexedOnly :
           /\ outcome[p] \in {"added", "failed"}
           /\ p \in chunked
           /\ outcome[p] = "added" <=> p \in DOMAIN history)

\* a finished run counted as added a file that full indexing had already
\* put into the store with its current content, after a query was answered
\* while the run was in progress
C37_Witness ==
  /\ pc = "done"
  /\ rpc = "answered"
  /\ \E p \in With("added") :
       /\ p \notin DOMAIN startHistory
       /\ <<p, disk[p].content>> \in fullIndexed
       /\ <<p, disk[p].content>> \in stored

\* the paths at which two ledgers differ
Differ(g, h) ==
  {p \in DOMAIN g \cup DOMAIN h :
     ~(p \in DOMAIN g /\ p \in DOMAIN h /\ g[p] = h[p])}

\* C32: with two processes that each hold their own ledger map over one
\* ledger file, every write leaves in the file exactly the map of the
\* process that wrote, so what only the other process had recorded is gone
\* from the file; and the map of a running process changes only in its own
\* calls, at the one path of the call or by its own clearHistory: it never
\* takes in what another process wrote to the file after it started.
C32_LastWriterWins ==
  /\ [][historyFile' # historyFile =>
          /\ lastWriter' \in Writers
          /\ procs'[lastWriter'].up
          /\ historyFile' = LedgerFile(procs'[lastWriter'].history)
          /\ \A v \in Writers \ {lastWriter'} :
               \A p \in DOMAIN procs[v].history \ DOMAIN procs'[lastWriter'].history :
                 p \notin DOMAIN historyFile'.map]_vars
  /\ [][\A w \in Writers :
          (procs[w].up /\ procs'[w].up /\ procs'[w].history # procs[w].history) =>
            /\ lastWriter' = w
            /\ \/ Cardinality(Differ(procs[w].history, procs'[w].history)) = 1
               \/ procs'[w].history = EmptyHistory]_vars
  /\ [](\A w \in Writers :
          (lastWriter = w /\ procs[w].up) => historyFile = LedgerFile(procs[w].history))

\* both processes are up, the server recorded a file, the CLI process wrote
\* after it: the file holds the CLI's map, the server's record is not in it,
\* and the server's map has nothing of what the CLI wrote
C32_Witness ==
  /\ procs["server"].up /\ procs["cli"].up
  /\ lastWriter = "cli"
  /\ historyFile = LedgerFile(procs["cli"].history)
  /\ \E p \in DOMAIN procs["server"].history : p \notin DOMAIN historyFile.map
  /\ \E q \in DOMAIN historyFile.map : q \notin DOMAIN procs["server"].history

\* C35: however two concurrent runs in one process interleave at their
\* awaits, each file version <<path, content hash>> is upserted at most once
\* and is counted as added or updated by at most one of the two runs.
C35_OncePerVersion ==
  \A k \in VersionKeys :
    /\ upsertCount[k] <= 1
    /\ Cardinality({r \in Coruns : k \in corun[r].counted}) <= 1

\* the files a directory scan finds and the loader can read
Loadable == {p \in Paths : ExistsSync(p) /\ ~LoadFromFileThrows(p)}

\* the ledger has a record with the current hash for every loadable file
\* and no record for a file missing from disk
Converged ==
  /\ \A p \in Loadable : p \in DOMAIN history /\ history[p].hash = CalculateFileHash(p)
  /\ \A p \in DOMAIN history : ExistsSync(p)

\* a run has returned added = 0, updated = 0, deleted = 0 and skipped equal
\* to the number of scanned files
Quiet ==
  /\ pc = "done"
  /\ result = [added |-> 0, updated |-> 0, deleted |-> 0,
               skipped |-> Cardinality(Loadable), total |-> Cardinality(Loadable)]

\* C36: when the files stop changing and addDocuments eventually succeeds
\* for every file, repeated runs reach a state from which on the ledger has
\* the current hash of every scanned file and no record of a missing file,
\* and from which on every run ends and returns 0 added, 0 updated,
\* 0 deleted and all scanned files skipped.
C36_Convergence ==
  /\ <>[]Converged
  /\ <>[](pc \notin {"loop", "idle"} => Quiet)
  /\ []<>Quiet

\* C39: for every discovered document, the path that reconciliation hashes
\* and uses as the ledger key is the path at which the directory scan found
\* the file, whatever the file contains.
C39_KeyIsScanPath ==
  \A pair \in dirRun.keyOf : pair[2] = pair[1]
====
